---------------------------- MODULE Spec2Model ----------------------------
(***************************************************************************)
(* Model of the generic record store of talibg/asgard (src/lib/db.ts):     *)
(* createStore's operations over one IndexedDB object store, the           *)
(* transactions the idb wrapper opens for them, and the BroadcastChannel   *)
(* ping that follows a committed write.  Two execution contexts (tabs)     *)
(* share the engine; each store object has its own channel object, and a   *)
(* tab may hold more than one store object.                                *)
(***************************************************************************)
EXTENDS Integers, Sequences, FiniteSets, TLC

(***************************************************************************)
(* Bounds of the model.                                                    *)
(***************************************************************************)
NumIds == 2        \* valid primary keys are 1..NumIds
MaxBatch == 2      \* longest row list handed to upsertMany / importJson
MaxMsgs == 1       \* most undelivered messages queued at one channel object
MaxQueryLen == 2   \* longest query drawn for the search scenarios
MaxListed == 3     \* most records in a collection of the sorting scenarios
MaxNameLen == 2    \* longest dbName / storeName of the naming scenarios
MaxVersion == 2    \* highest version a configuration of the database scenarios asks for

\* The store objects that call operations: A in one tab, B in another.
Ctx == {"A", "B"}
\* All store objects: A2 is a second store created in A's tab, C a store
\* created in B's tab; they only listen.
Objs == Ctx \cup {"A2", "C"}
Tabs == {"T1", "T2"}
\* The listeners handed to onChange.
Handlers == {1, 2}

(***************************************************************************)
(* Strings are sequences of characters, so that trim, toLowerCase and      *)
(* includes are computed and not assumed.                                  *)
(***************************************************************************)
SP == "SP"
TAB == "TAB"
Whitespace == {SP, TAB}
Foo == <<"F", "o", "o">>
Baz == <<"B", "a", "z">>
Bar == <<"b", "a", "r">>
Foobar == <<"f", "o", "o", "b", "a", "r">>
StrA == <<"a">>
StrB == <<"b">>
StrX == <<"x">>

(***************************************************************************)
(* Records.  id 0 stands for a key-field value that is not a valid         *)
(* IndexedDB key (missing, null, boolean): T[KField] is only constrained   *)
(* to Primitive, and importJson casts unvalidated items to T.              *)
(***************************************************************************)
Ids == 1..NumIds
NoKey == 0
\* The value undefined of Primitive: a record field that holds no value.
Undefined == 0 - 1
\* The number NaN and the value null.
NotANumber == 0 - 2
Null == 0 - 3
\* The values that are no valid IndexedDB key.
NotAKey == {Undefined, NotANumber, Null}
V1 == [title |-> Foo, tags |-> <<Bar>>, code |-> StrX, updatedAt |-> 100]
V2 == [title |-> Baz, tags |-> <<StrA, StrB>>, code |-> Foobar, updatedAt |-> 200]
Variants == {V1, V2}
Rec(i, v) ==
    [title |-> v.title, tags |-> v.tags, code |-> v.code,
     updatedAt |-> v.updatedAt, id |-> i]
Records == { Rec(i, v) : i \in Ids \cup {NoKey}, v \in Variants }
ValidRecords == { r \in Records : r.id \in Ids }

VARIABLES
    env,        \* the store objects created, their names, BroadcastChannel support
    heard,      \* per store object: the listeners its last message event invoked
    cfg,        \* StoreConfig: unique flag of by_title, textSearchFields
    store,      \* committed records of the object store
    index,      \* committed index entries, per index name
    tx,         \* the readwrite transaction the engine is running, if any
    op,         \* per context: the store operation in progress
    inbox,      \* per store object: message events queued at its channel object
    subscribed, \* per store object and listener: the outcome of onChange
    missed,     \* per store object: a refetch ran before the write it was told of
    dbCache,    \* per tab: the Map from cache key to the handle promise's state
    db,         \* the database: version, schema, connections, open requests
    last,       \* the last settled write of context A, when recording
    recording   \* whether the history variables (last, pre, post) are kept

vars == <<db, env, heard, cfg, store, index, tx, op, inbox, subscribed, missed, dbCache,
          last, recording>>

\* The tab (execution context) a store object was created in.
TabOf(o) == env.tab[o]

(***************************************************************************)
(* Channels.  env.names gives the dbName and storeName of each store       *)
(* object's configuration, as character sequences; env.supported tells     *)
(* whether BroadcastChannel is defined in a tab.                           *)
(***************************************************************************)
\* The names of the Snippets configuration ('snippets-db', 'snippets').
SnippetsNames == [dbName |-> <<"d">>, storeName |-> <<"s">>]

Colons == <<":", ":">>
Changes == <<"c", "h", "a", "n", "g", "e", "s">>

\* const makeChannelName = (dbName, storeName) => `${dbName}::${storeName}::changes`
makeChannelName(dbName, storeName) ==
    dbName \o Colons \o storeName \o Colons \o Changes

\* idb.ts: new BroadcastChannel('snippets'), the store's name alone
IdbChannel == SnippetsNames.storeName

\* The name of store object o's channel: env.lib tells whether o was built
\* by createStore ("db") or is the hand-written Snippets of idb.ts ("idb").
ChannelOf(o) ==
    IF env.lib[o] = "idb" THEN IdbChannel
    ELSE makeChannelName(env.names[o].dbName, env.names[o].storeName)

\* (variant) a channel is created whether or not BroadcastChannel exists
SupportedAlways(o) == TRUE

\* const supported = typeof BroadcastChannel !== 'undefined'
Supported(o) == env.supported[TabOf(o)]

\* (variant) a message only reaches the channel objects of the sender's tab
ReceiversSameTab(c) ==
    { d \in env.created \ {c} :
         Supported(d) /\ ChannelOf(d) = ChannelOf(c) /\ TabOf(d) = TabOf(c) }

\* BroadcastChannel.postMessage: the message goes to every other channel
\* object of the same name, in whatever tab it was created.
Receivers(c) ==
    { d \in env.created \ {c} : Supported(d) /\ ChannelOf(d) = ChannelOf(c) }

\* The listeners registered at a store object's channel.
Registered(o) == { h \in Handlers : subscribed[o][h] = "on" }

NotHeard == [from |-> "none", handlers |-> {}]

\* DB_VERSION of the Snippets configuration.
SnippetsVersion == 1

\* A and A2 are created in one tab, B and C in another.
SplitTabs == [o \in Objs |-> IF o \in {"A", "A2"} THEN "T1" ELSE "T2"]

\* Two tabs, one store object each, one listener each, channels supported.
TwoTabs ==
    [tab |-> SplitTabs,
     lib |-> [o \in Objs |-> "db"],
     names |-> [o \in Objs |-> SnippetsNames],
     supported |-> [t \in Tabs |-> TRUE],
     created |-> Ctx,
     version |-> [o \in Objs |-> SnippetsVersion],
     listeners |-> [o \in Objs |-> IF o \in Ctx THEN {1} ELSE {}],
     observe |-> FALSE]

(***************************************************************************)
(* The engine: one object store with in-line keys (keyPath = keyField) and *)
(* the three indexes of the Snippets configuration.  by_title is unique    *)
(* when cfg.unique is set (IndexDef.unique); by_tags is multiEntry.        *)
(***************************************************************************)
IndexNames == {"by_title", "by_updatedAt", "by_tags"}
EmptyIndex == [n \in IndexNames |-> {}]

IndexKeys(name, r) ==
    CASE name = "by_title" -> {r.title}
      [] name = "by_updatedAt" ->
            IF r.updatedAt \in NotAKey THEN {} ELSE {r.updatedAt}
      [] name = "by_tags" -> { r.tags[i] : i \in DOMAIN r.tags }

\* The definition createIndex gives a configured index: by_title is unique
\* when the configuration says so, by_tags is multiEntry.
IndexDef(name) ==
    [unique |-> name = "by_title" /\ cfg.unique, multiEntry |-> name = "by_tags"]

\* The indexes of the object stores on disk: an index is unique as it was
\* defined when it was created.
IsUnique(name) ==
    \E s \in DOMAIN db.schema :
        name \in DOMAIN db.schema[s] /\ db.schema[s][name].unique

\* Whether the object store on disk has an index of that name.
HasIndex(name) == \E s \in DOMAIN db.schema : name \in DOMAIN db.schema[s]

EntriesOf(name, r) == { [key |-> k, pk |-> r.id] : k \in IndexKeys(name, r) }

(***************************************************************************)
(* The database and its handle.  db.version is the version on disk (0: no  *)
(* database yet) and db.schema the indexes of each object store on disk;   *)
(* db.conns are the open connections, db.reqs the callers whose openDB     *)
(* request is pending, db.opens the cache keys openDB was called for in    *)
(* each tab, db.waiting the callers awaiting ensureDb in the order their   *)
(* continuations were queued, db.order the callers in the order their      *)
(* transactions were created, db.called the callers in the order they      *)
(* were called, db.fault tells whether the engine's storage is failing,    *)
(* db.prior is the schema the last upgrade found and db.sound the callers  *)
(* whose operation was called while the storage worked (history).          *)
(***************************************************************************)
\* const getDbKey = (dbName, version) => `${dbName}@${version}`
getDbKey(dbName, version) == dbName \o <<"@", version>>

\* The key of o's handle: idb.ts keeps its own in the variable dbPromise.
KeyOf(o) ==
    IF env.lib[o] = "idb" THEN <<"dbPromise">>
    ELSE getDbKey(env.names[o].dbName, env.version[o])

\* (variant) the cache counts only once the handle is there
CachedWhenOpen(o) ==
    /\ KeyOf(o) \in DOMAIN dbCache[TabOf(o)]
    /\ dbCache[TabOf(o)][KeyOf(o)] = "fulfilled"

\* dbCache.has(cacheKey) and dbCache.get(cacheKey), in the caller's tab
Cached(o) == KeyOf(o) \in DOMAIN dbCache[TabOf(o)]
Promise(o) == dbCache[TabOf(o)][KeyOf(o)]
Settled(p) == p # "pending"

NoCache == [t \in Tabs |-> <<>>]

Conn(o) == [tab |-> TabOf(o), version |-> env.version[o], key |-> KeyOf(o)]

NewDb(version, schema, fault) ==
    [version |-> version, schema |-> schema, fault |-> fault, conns |-> {},
     reqs |-> {}, opens |-> [t \in Tabs |-> <<>>], waiting |-> <<>>,
     order |-> <<>>, called |-> <<>>, prior |-> <<>>, sound |-> {}]

\* The indexes of the Snippets configuration, as the upgrade creates them.
ConfiguredIndexes == [n \in IndexNames |-> IndexDef(n)]

\* The database an earlier session of the Snippets configuration left.
ExistingDb ==
    NewDb(SnippetsVersion, (SnippetsNames.storeName :> ConfiguredIndexes), FALSE)

\* (variant) every configured index is created anew, replacing an index of
\* the same name
UpgradeSchemaRedefine(schema, c) ==
    LET s == env.names[c].storeName
        old == IF s \in DOMAIN schema THEN schema[s] ELSE <<>>
        indexes == [n \in DOMAIN old \cup IndexNames |->
                       IF n \in IndexNames THEN IndexDef(n) ELSE old[n]]
    IN  [x \in DOMAIN schema \cup {s} |-> IF x = s THEN indexes ELSE schema[x]]

\* upgrade(db, _oldVersion, _newVersion, tx): the object store is created
\* when it is missing, and every configured index whose name the store does
\* not have yet is created; what exists is left as it is.
UpgradeSchema(schema, c) ==
    LET s == env.names[c].storeName
        hasStore == s \in DOMAIN schema
        old == IF hasStore THEN schema[s] ELSE <<>>
        existing == DOMAIN old
        indexes == [n \in existing \cup IndexNames |->
                       IF n \in existing THEN old[n] ELSE IndexDef(n)]
    IN  [x \in DOMAIN schema \cup {s} |-> IF x = s THEN indexes ELSE schema[x]]

\* createIndex with unique: true on a store holding two records with one
\* key fails, and the upgrade transaction aborts.
UpgradeAborts(schema, recs, c) ==
    LET s == env.names[c].storeName
        existing == IF s \in DOMAIN schema THEN DOMAIN schema[s] ELSE {}
    IN  \E n \in IndexNames \ existing :
            /\ IndexDef(n).unique
            /\ \E x, y \in recs :
                   x.id # y.id /\ IndexKeys(n, x) \cap IndexKeys(n, y) # {}

\* (variant) the record is stored without removing the one it replaces
StoreRecordKeepOld(recs, r) == recs \cup {r}

\* (variant) the replaced record's index entries are left behind
ReindexRecordKeepStale(idx, r) ==
    [n \in IndexNames |-> idx[n] \cup EntriesOf(n, r)]

\* IDBObjectStore.put, step "store a record": a record with the same key is
\* removed before the new one is stored.
StoreRecord(recs, r) == { x \in recs : x.id # r.id } \cup {r}

\* ... and so are the index entries that referred to it.
ReindexRecord(idx, r) ==
    [n \in IndexNames |-> { e \in idx[n] : e.pk # r.id } \cup EntriesOf(n, r)]

\* A unique index refuses a key that another record already holds: the
\* primary keys of the records that hold one of r's keys in a unique index.
ConflictPks(idx, r) ==
    { e.pk : e \in UNION { { x \in idx[n] : x.pk # r.id /\ x.key \in IndexKeys(n, r) } :
                             n \in { m \in IndexNames : IsUnique(m) } } }

\* (variant) the record is added, not put: a stored key is refused
EngineAdd(recs, idx, r) ==
    IF r.id \notin Ids
    THEN [recs |-> recs, idx |-> idx, err |-> "DataError", culprits |-> {}]
    ELSE IF \E x \in recs : x.id = r.id
    THEN [recs |-> recs, idx |-> idx, err |-> "ConstraintError",
          culprits |-> {r.id}]
    ELSE [recs |-> StoreRecord(recs, r), idx |-> ReindexRecord(idx, r),
          err |-> "none", culprits |-> {}]

\* The outcome of tx.store.put(r) / db.put(storeName, r) on the contents
\* (recs, idx) of the running transaction.  An invalid in-line key makes
\* put() throw DataError before any request exists; a unique-index
\* violation fails the request with ConstraintError.
EnginePut(recs, idx, r) ==
    IF r.id \notin Ids
    THEN [recs |-> recs, idx |-> idx, err |-> "DataError", culprits |-> {}]
    ELSE IF ConflictPks(idx, r) # {}
    THEN [recs |-> recs, idx |-> idx, err |-> "ConstraintError",
          culprits |-> ConflictPks(idx, r)]
    ELSE [recs |-> StoreRecord(recs, r), idx |-> ReindexRecord(idx, r),
          err |-> "none", culprits |-> {}]

\* (variant) delete empties the store, as clear does
EngineDeleteAll(recs, idx, k) ==
    [recs |-> {}, idx |-> EmptyIndex, err |-> "none", culprits |-> {}]

\* db.delete(storeName, id): removes the record with that key, if any.
EngineDelete(recs, idx, k) ==
    [recs |-> { x \in recs : x.id # k },
     idx |-> [n \in IndexNames |-> { e \in idx[n] : e.pk # k }],
     err |-> "none", culprits |-> {}]

\* db.clear(storeName)
EngineClear(recs, idx) ==
    [recs |-> {}, idx |-> EmptyIndex, err |-> "none", culprits |-> {}]

RECURSIVE ByKey(_)
\* The records of a set in ascending primary-key order.
ByKey(S) ==
    IF S = {} THEN <<>>
    ELSE LET m == CHOOSE r \in S : \A x \in S : r.id <= x.id
         IN  <<m>> \o ByKey(S \ {m})

\* db.getAll(storeName)
GetAll(recs) == ByKey(recs)

\* db.get(storeName, id): the record, or undefined (the empty result).
EngineGet(recs, k) == ByKey({ r \in recs : r.id = k })

\* index.getAll(key): the records the index entries with that key refer to.
IndexGetAll(recs, idx, name, key) ==
    LET pks == { e.pk : e \in { x \in idx[name] : x.key = key } }
    IN  ByKey({ r \in recs : r.id \in pks })

(***************************************************************************)
(* Text search helpers: String.prototype.trim, toLowerCase and includes.   *)
(* SIGMA, sigma and fsigma stand for the Greek capital sigma, small sigma  *)
(* and final small sigma: toLowerCase maps a capital sigma that ends a     *)
(* word to the final form (Unicode SpecialCasing, Final_Sigma).            *)
(***************************************************************************)
Cased(c) == c \notin Whitespace

LowerChar(c) ==
    CASE c = "F" -> "f"
      [] c = "B" -> "b"
      [] c = "O" -> "o"
      [] c = "A" -> "a"
      [] c = "SIGMA" -> "sigma"
      [] OTHER -> c

FinalSigma(s, i) ==
    /\ i > 1 /\ Cased(s[i - 1])
    /\ ~(i < Len(s) /\ Cased(s[i + 1]))

ToLowerCase(s) ==
    [i \in 1..Len(s) |->
        IF s[i] = "SIGMA" /\ FinalSigma(s, i) THEN "fsigma" ELSE LowerChar(s[i])]

\* (variant) the field value is compared as it is, without lower-casing
toLowerNone(v) == v

\* const toLower = (v) => typeof v === 'string' ? v.toLowerCase() : ...
\* (the text fields of the records drawn here hold strings, so the
\* String(v ?? '') branch is not taken)
toLower(v) == ToLowerCase(v)

\* (variant) the query is used untrimmed
TrimNone(s) == s

\* q.trim()
Trim(s) ==
    LET keep == { i \in 1..Len(s) : s[i] \notin Whitespace }
    IN  IF keep = {} THEN <<>>
        ELSE SubSeq(s, CHOOSE i \in keep : \A j \in keep : i <= j,
                       CHOOSE i \in keep : \A j \in keep : i >= j)

\* haystack.includes(needle)
Includes(h, n) ==
    \E i \in 0..(Len(h) - Len(n)) : SubSeq(h, i + 1, i + Len(n)) = n

\* Array.isArray(r[f]): of the record fields, tags holds an array.
IsArrayField(f) == f = "tags"

\* the predicate of rows.filter in search
SearchMatch(r, fields, lower) ==
    \E f \in fields :
        IF IsArrayField(f)
        THEN \E i \in DOMAIN r[f] : Includes(toLower(r[f][i]), lower)
        ELSE Includes(toLower(r[f]), lower)

\* listAll() with no orderBy: the rows of db.getAll
ListAll(recs) == GetAll(recs)

\* a < b on field values: a comparison with undefined or NaN is false, and
\* null is converted to 0.
Less(a, b) ==
    /\ a \notin {Undefined, NotANumber}
    /\ b \notin {Undefined, NotANumber}
    /\ (IF a = Null THEN 0 ELSE a) < (IF b = Null THEN 0 ELSE b)

(***************************************************************************)
(* JSON.  A JSON text is represented by the value JSON.parse gives for it. *)
(* JSON.stringify writes a number that is not finite as null and leaves    *)
(* out a property whose value is undefined; strings, finite numbers and    *)
(* arrays of strings are written as they are.                              *)
(***************************************************************************)
JsonValue(v) == IF v = NotANumber THEN Null ELSE v

\* JSON.parse(JSON.stringify(r)) for a record r
JsonRecord(r) == [r EXCEPT !.updatedAt = JsonValue(r.updatedAt)]

JsonItems(rows) == [i \in DOMAIN rows |-> JsonRecord(rows[i])]

\* JSON.parse of exportJson's text: { v: 1, exportedAt: Date.now(), items }
Envelope(rows, now) == [v |-> 1, exportedAt |-> now, items |-> JsonItems(rows)]

\* Date.now()
Clock == {1000, 2000}

\* const cmp = (a, b) => (a < b ? -1 : a > b ? 1 : 0)
cmp(a, b) == IF Less(a, b) THEN 0 - 1 ELSE IF Less(b, a) THEN 1 ELSE 0

\* dir: OrderDir = 'desc'
DirOrDefault(dir) == IF dir = "omitted" THEN "desc" ELSE dir

\* the comparator handed to sort by listAll
Comparator(a, b, orderBy, dir) ==
    IF DirOrDefault(dir) = "asc" THEN cmp(a[orderBy], b[orderBy])
    ELSE cmp(b[orderBy], a[orderBy])

\* rows.slice().sort(comparator).  Array.prototype.sort is stable and, for
\* a comparator that is a consistent ordering, yields the one sorted stable
\* arrangement.  For a comparator that is not (undefined compares equal to
\* everything), the order is implementation-defined: the outcomes kept are
\* the arrangements an insertion or merge sort can leave, in which no
\* element is directly followed by one the comparator puts before it and
\* neighbours that compare equal keep their original order.
SortOutcomes(rows, orderBy, dir) ==
    LET n == Len(rows)
        Ok(p) == \A i \in 1..(n - 1) :
                    LET c == Comparator(rows[p[i]], rows[p[i + 1]], orderBy, dir)
                    IN  c < 0 \/ (c = 0 /\ p[i] < p[i + 1])
    IN  { [i \in 1..n |-> rows[p[i]]] : p \in { q \in Permutations(1..n) : Ok(q) } }

\* listAll(orderBy, dir)
ListAllSorted(recs, orderBy, dir) ==
    IF orderBy = "none" THEN {ListAll(recs)}
    ELSE SortOutcomes(GetAll(recs), orderBy, dir)

\* search(q)
Search(recs, fields, q) ==
    LET query == Trim(q)
    IN  IF query = <<>> THEN ListAll(recs)
        ELSE LET lower == ToLowerCase(query)
                 Hit(r) == SearchMatch(r, fields, lower)
             IN  SelectSeq(GetAll(recs), Hit)

(***************************************************************************)
(* The hand-written store of idb.ts, on the same database and object       *)
(* store: its listAll reads the by_updatedAt index backwards, and its      *)
(* searchByTitle filters on title, tags and code and sorts by updatedAt.   *)
(***************************************************************************)
RECURSIVE ByIndex(_, _)
\* The records the entries E of an index refer to, in the order of the
\* index: by index key, then by primary key.
ByIndex(recs, E) ==
    IF E = {} THEN <<>>
    ELSE LET m == CHOOSE e \in E :
                     \A x \in E : e.key < x.key \/ (e.key = x.key /\ e.pk <= x.pk)
         IN  ByKey({ r \in recs : r.id = m.pk }) \o ByIndex(recs, E \ {m})

\* db.getAllFromIndex('snippets', indexName)
GetAllFromIndex(recs, idx, name) == ByIndex(recs, idx[name])

\* rows.reverse()
Reverse(rows) == [i \in 1..Len(rows) |-> rows[Len(rows) + 1 - i]]

\* Snippets.listAll of idb.ts
IdbListAll(recs, idx) == Reverse(GetAllFromIndex(recs, idx, "by_updatedAt"))

\* (variant) only the title is looked at, as the name searchByTitle says
IdbMatchTitleOnly(r, lower) == Includes(ToLowerCase(r.title), lower)

\* the predicate of rows.filter in searchByTitle: inTitle || inTags || inCode
IdbMatch(r, lower) ==
    \/ Includes(ToLowerCase(r.title), lower)
    \/ \E i \in DOMAIN r.tags : Includes(ToLowerCase(r.tags[i]), lower)
    \/ Includes(ToLowerCase(r.code), lower)

\* (a, b) => b.updatedAt - a.updatedAt: NaN when either is undefined or NaN,
\* which sort takes as 0; null counts as 0.
IdbComparator(a, b) ==
    IF a.updatedAt \in {Undefined, NotANumber} \/ b.updatedAt \in {Undefined, NotANumber}
    THEN 0
    ELSE (IF b.updatedAt = Null THEN 0 ELSE b.updatedAt)
           - (IF a.updatedAt = Null THEN 0 ELSE a.updatedAt)

\* rows.sort(comparator), with the outcomes of SortOutcomes
IdbSortOutcomes(rows) ==
    LET n == Len(rows)
        Ok(p) == \A i \in 1..(n - 1) :
                    LET c == IdbComparator(rows[p[i]], rows[p[i + 1]])
                    IN  c < 0 \/ (c = 0 /\ p[i] < p[i + 1])
    IN  { [i \in 1..n |-> rows[p[i]]] : p \in { q \in Permutations(1..n) : Ok(q) } }

\* searchByTitle(q)
SearchByTitle(recs, idx, q) ==
    LET query == Trim(q)
    IN  IF query = <<>> THEN {IdbListAll(recs, idx)}
        ELSE LET lower == ToLowerCase(query)
                 Hit(r) == IdbMatch(r, lower)
             IN  IdbSortOutcomes(SelectSeq(GetAll(recs), Hit))

\* listByIndex(indexName, key): store.index throws NotFoundError for a name
\* that is no index of the store.
ListByIndex(recs, idx, name, key) ==
    IF ~HasIndex(name)
    THEN [err |-> "NotFoundError", val |-> <<>>]
    ELSE [err |-> "none", val |-> IndexGetAll(recs, idx, name, key)]

(***************************************************************************)
(* Store operations.  Every operation awaits ensureDb and then runs its    *)
(* engine calls; Steps gives the order of a handler's awaited steps:       *)
(*   begin   the readwrite transaction is started by the engine            *)
(*   req     one request of the transaction is executed                    *)
(*   commit  await tx.done (inside db.put / db.delete / db.clear too)      *)
(*   ping    ping()                                                        *)
(*   read    the engine call of a read operation                           *)
(***************************************************************************)
Writes == {"put", "delete", "clear", "upsertMany", "importJson"}
Reads == {"get", "listAll", "search", "listByIndex", "exportJson"}

\* (variant) upsertMany returns after tx.done without calling ping()
StepsNoBatchPing(name) ==
    IF name = "upsertMany" THEN <<"begin", "req", "commit">>
    ELSE IF name \in Writes THEN <<"begin", "req", "commit", "ping">>
    ELSE <<"read">>

\* (variant) clear returns after db.clear without calling ping()
StepsNoClearPing(name) ==
    IF name = "clear" THEN <<"begin", "req", "commit">>
    ELSE IF name \in Writes THEN <<"begin", "req", "commit", "ping">>
    ELSE <<"read">>

\* (variant) ping() is called before the transaction's completion is awaited
StepsPingFirst(name) ==
    IF name \in Writes THEN <<"begin", "req", "ping", "commit">> ELSE <<"read">>

\* (variant) a read calls ping() before it returns
StepsReadPing(name) ==
    IF name \in Writes THEN <<"begin", "req", "commit", "ping">> ELSE <<"read", "ping">>

Steps(name) ==
    IF name \in Writes THEN <<"begin", "req", "commit", "ping">> ELSE <<"read">>

StepAfter(name, pc) ==
    LET s == Steps(name)
        k == CHOOSE j \in 1..Len(s) : s[j] = pc
    IN  IF k = Len(s) THEN "resolved" ELSE s[k + 1]

\* put, delete and clear issue one request; a batch issues one per row.
NumRequests(o) ==
    IF o.name \in {"upsertMany", "importJson"} THEN Len(o.rows) ELSE 1

NextPc(o, pc) ==
    LET n == StepAfter(o.name, pc)
    IN  IF n = "req" /\ NumRequests(o) = 0 THEN StepAfter(o.name, "req") ELSE n

Goto(o, pc) ==
    [o EXCEPT !.pc = pc, !.res = IF pc = "resolved" THEN "ok" ELSE o.res]

\* History kept for the sequential scenarios only.
Kept(recs) == IF recording THEN recs ELSE {}

NoTx == [recs |-> {}, idx |-> EmptyIndex, owner |-> "none", orphan |-> FALSE]

IdleOp ==
    [i |-> 0, name |-> "none", key |-> 0, culprits |-> {}, rows |-> <<>>,
     dir |-> "omitted", orderBy |-> "none", q |-> <<>>, val |-> <<>>,
     pc |-> "idle", res |-> "none", ixName |-> "none", ixKey |-> <<>>,
     kind |-> "none", sent |-> 0, committed |-> FALSE, pre |-> {}, post |-> {}]

\* The kinds of text handed to importJson: text that is not JSON, and JSON
\* for null, a number, a string, a boolean, an array, an object without
\* items, an object whose items is not an array, and an envelope.
MalformedKinds ==
    {"notJson", "null", "number", "string", "boolean", "bareArray", "noItems",
     "itemsNotArray"}

\* parsed.items for the value JSON.parse returns: reading a property of
\* null throws TypeError; a number, string, boolean or array has no items.
ItemsOf(kind) ==
    CASE kind = "null" -> "TypeError"
      [] kind = "envelope" -> "array"
      [] kind = "itemsNotArray" -> "notArray"
      [] OTHER -> "undefined"

\* (variant) a payload without items is taken as an empty list of items
ImportErrorLax(in) ==
    IF in.name # "importJson" THEN "none"
    ELSE IF in.kind = "notJson" THEN "SyntaxError"
    ELSE IF ItemsOf(in.kind) = "TypeError" THEN "TypeError"
    ELSE IF ItemsOf(in.kind) = "notArray" THEN "Invalid import payload"
    ELSE "none"

\* importJson: JSON.parse and the Array.isArray(parsed.items) check, on the
\* kind of text handed in.  Every other operation starts without a check.
ImportError(in) ==
    IF in.name # "importJson" THEN "none"
    ELSE IF in.kind = "notJson" THEN "SyntaxError"
    ELSE IF ItemsOf(in.kind) = "TypeError" THEN "TypeError"
    ELSE IF ItemsOf(in.kind) # "array" THEN "Invalid import payload"
    ELSE "none"

NewOp(in) ==
    [IdleOp EXCEPT !.name = in.name, !.rows = in.rows, !.key = in.key,
                   !.q = in.q, !.ixName = in.ixName, !.ixKey = in.ixKey,
                   !.kind = in.kind, !.orderBy = in.orderBy, !.dir = in.dir]

\* An operation is called on a store whose database exists at the
\* configured version, so that the open succeeds and the operation goes on
\* to its first engine call.  importJson fails at once on a malformed
\* payload; otherwise ensureDb fills the handle cache on a miss.
Call(c, in) ==
    /\ op[c].pc = "idle"
    /\ IF ImportError(in) # "none"
       THEN /\ op' = [op EXCEPT ![c] = [NewOp(in) EXCEPT !.pc = "rejected",
                                                         !.res = ImportError(in)]]
            /\ UNCHANGED <<dbCache, db>>
       ELSE /\ op' = [op EXCEPT ![c] = [NewOp(in) EXCEPT !.pc = Steps(in.name)[1],
                                                         !.i = 1]]
            /\ IF Cached(c)
               THEN UNCHANGED <<dbCache, db>>
               ELSE /\ dbCache' = [dbCache EXCEPT ![TabOf(c)] =
                                      @ @@ (KeyOf(c) :> "fulfilled")]
                    /\ db' = [db EXCEPT !.conns = @ \cup {Conn(c)},
                                        !.opens[TabOf(c)] = Append(@, KeyOf(c))]
    /\ UNCHANGED <<env, heard, cfg, store, index, tx, inbox, subscribed, missed, last, recording>>

\* The callers of a sequence that still are where pcs says.
Still(seq, pcs) ==
    LET At(d) == op[d].pc \in pcs
    IN  SelectSeq(seq, At)

\* An operation is called: importJson fails at once on a malformed payload;
\* otherwise ensureDb runs up to its return, calling openDB when the cache
\* has no promise for the key, and the operation awaits the promise.
Invoke(c, in) ==
    /\ op[c].pc = "idle"
    /\ IF ImportError(in) # "none"
       THEN /\ op' = [op EXCEPT ![c] = [NewOp(in) EXCEPT !.pc = "rejected",
                                                         !.res = ImportError(in)]]
            /\ UNCHANGED <<dbCache, db>>
       ELSE /\ op' = [op EXCEPT ![c] = [NewOp(in) EXCEPT !.pc = "db", !.i = 1]]
            /\ IF Cached(c)
               THEN /\ UNCHANGED dbCache
                    /\ db' = [db EXCEPT
                                !.waiting = Append(@, c),
                                !.called = Append(Still(@, {"db", "begin", "read", "req",
                                                            "commit", "thrown", "ping"}), c),
                                !.sound = IF db.fault THEN @ \ {c} ELSE @ \cup {c}]
               ELSE /\ dbCache' = [dbCache EXCEPT ![TabOf(c)] =
                                      @ @@ (KeyOf(c) :> "pending")]
                    /\ db' = [db EXCEPT
                                !.reqs = @ \cup {c},
                                !.opens[TabOf(c)] = Append(@, KeyOf(c)),
                                !.waiting = Append(@, c),
                                !.called = Append(Still(@, {"db", "begin", "read", "req",
                                                            "commit", "thrown", "ping"}), c),
                                !.sound = IF db.fault THEN @ \ {c} ELSE @ \cup {c}]
    /\ UNCHANGED <<env, heard, cfg, store, index, tx, inbox, subscribed, missed, last, recording>>

\* An open that needs a version change waits for every open connection to
\* the database to close; the store never closes its handle and passes
\* openDB no blocked or blocking callback.
Blocked(c) ==
    /\ c \in db.reqs
    /\ ~db.fault
    /\ env.version[c] > db.version
    /\ db.conns # {}

\* What the engine answers to the open request of caller c: an error while
\* its storage fails, VersionError for a version below the one on disk, the
\* connection when the version is the one on disk, and otherwise the
\* upgrade, which may abort.
OpenOutcome(c) ==
    IF db.fault THEN "UnknownError"
    ELSE IF env.version[c] < db.version THEN "VersionError"
    ELSE IF env.version[c] = db.version THEN "fulfilled"
    ELSE IF UpgradeAborts(db.schema, store, c) THEN "AbortError"
    ELSE "upgraded"

\* The engine settles an open request; the promise openDB returned, which
\* dbCache holds, is fulfilled or rejected.
Open(c) ==
    /\ c \in db.reqs
    /\ ~Blocked(c)
    /\ LET out == OpenOutcome(c)
       IN  /\ dbCache' = [dbCache EXCEPT ![TabOf(c)][KeyOf(c)] =
                              IF out = "upgraded" THEN "fulfilled" ELSE out]
           /\ db' = IF out = "upgraded"
                    THEN [db EXCEPT !.reqs = @ \ {c},
                                    !.version = env.version[c],
                                    !.schema = UpgradeSchema(@, c),
                                    !.prior = db.schema,
                                    !.conns = @ \cup {Conn(c)}]
                    ELSE IF out = "fulfilled"
                    THEN [db EXCEPT !.reqs = @ \ {c}, !.conns = @ \cup {Conn(c)}]
                    ELSE [db EXCEPT !.reqs = @ \ {c}]
    /\ UNCHANGED <<env, heard, cfg, store, index, tx, op, inbox, subscribed, missed, last, recording>>

\* The engine's storage works again.
Recover ==
    /\ db.fault
    /\ db' = [db EXCEPT !.fault = FALSE]
    /\ UNCHANGED <<env, heard, cfg, store, index, tx, op, inbox, subscribed, missed, dbCache, last, recording>>

\* The continuations awaiting one promise run in the order they were queued.
FirstWaiting(c) ==
    \A k \in DOMAIN db.waiting :
        db.waiting[k] = c =>
            \A j \in 1..(k - 1) :
                LET d == db.waiting[j]
                IN  TabOf(d) # TabOf(c) \/ KeyOf(d) # KeyOf(c)

Without(seq, c) ==
    LET Keep(d) == d # c
    IN  SelectSeq(seq, Keep)

\* The operation resumes after await ensureDb(cfg): a rejected promise
\* rejects the operation; otherwise it creates its transaction, which
\* throws NotFoundError when the database has no object store of the name.
Resume(c) ==
    /\ op[c].pc = "db"
    /\ Settled(Promise(c))
    /\ FirstWaiting(c)
    /\ IF Promise(c) # "fulfilled"
       THEN /\ op' = [op EXCEPT ![c] = [op[c] EXCEPT !.pc = "rejected", !.res = Promise(c)]]
            /\ db' = [db EXCEPT !.waiting = Without(@, c)]
       ELSE IF env.names[c].storeName \notin DOMAIN db.schema
       THEN /\ op' = [op EXCEPT ![c] = [op[c] EXCEPT !.pc = "rejected",
                                                     !.res = "NotFoundError"]]
            /\ db' = [db EXCEPT !.waiting = Without(@, c)]
       ELSE /\ op' = [op EXCEPT ![c] = [op[c] EXCEPT !.pc = Steps(op[c].name)[1]]]
            /\ db' = [db EXCEPT !.waiting = Without(@, c),
                                !.order = Append(Still(@, {"begin", "read"}), c)]
    /\ UNCHANGED <<env, heard, cfg, store, index, tx, inbox, subscribed, missed, dbCache, last, recording>>

\* (variant) the engine starts transactions in any order
TurnAny(c) == TRUE

\* The engine starts the transactions on one object store in the order they
\* were created: a transaction waits for those created before it.
Turn(c) ==
    \A k \in DOMAIN db.order :
        db.order[k] = c =>
            \A j \in 1..(k - 1) : op[db.order[j]].pc \notin {"begin", "read"}

\* db.transaction(storeName, 'readwrite'): readwrite transactions on one
\* store run one at a time.
BeginTx(c) ==
    /\ op[c].pc = "begin"
    /\ tx.owner = "none"
    /\ Turn(c)
    /\ tx' = [recs |-> store, idx |-> index, owner |-> c, orphan |-> FALSE]
    /\ op' = [op EXCEPT ![c] = Goto([op[c] EXCEPT !.pre = Kept(store)],
                                    NextPc(op[c], "begin"))]
    /\ UNCHANGED <<db, env, heard, cfg, store, index, inbox, subscribed, missed, dbCache, last, recording>>

\* (variant) importJson replaces the collection: its first put starts
\* from an empty store
RequestOutcomeReplacing(o) ==
    CASE o.name = "delete" -> EngineDelete(tx.recs, tx.idx, o.key)
      [] o.name = "clear" -> EngineClear(tx.recs, tx.idx)
      [] o.name = "importJson" /\ o.i = 1 -> EnginePut({}, EmptyIndex, o.rows[o.i])
      [] OTHER -> EnginePut(tx.recs, tx.idx, o.rows[o.i])

RequestOutcome(o) ==
    CASE o.name = "delete" -> EngineDelete(tx.recs, tx.idx, o.key)
      [] o.name = "clear" -> EngineClear(tx.recs, tx.idx)
      [] OTHER -> EnginePut(tx.recs, tx.idx, o.rows[o.i])

\* One request of the transaction.  A put() that throws rejects the
\* operation and leaves the transaction to the engine (no request failed,
\* so nothing aborts it); a request that fails aborts the transaction.
Request(c) ==
    /\ op[c].pc = "req"
    /\ tx.owner = c
    /\ LET o == op[c]
           out == RequestOutcome(o)
       IN  CASE out.err = "DataError" ->
                  /\ tx' = [tx EXCEPT !.orphan = TRUE]
                  /\ op' = [op EXCEPT ![c] = [o EXCEPT !.pc = "thrown",
                                                       !.res = "DataError"]]
             [] out.err = "ConstraintError" ->
                  /\ tx' = NoTx
                  /\ op' = [op EXCEPT ![c] = [o EXCEPT !.pc = "rejected",
                                                       !.res = "ConstraintError",
                                                       !.culprits = out.culprits,
                                                       !.post = Kept(store)]]
             [] OTHER ->
                  /\ tx' = [tx EXCEPT !.recs = out.recs, !.idx = out.idx]
                  /\ op' = [op EXCEPT ![c] =
                              IF o.i < NumRequests(o)
                              THEN [o EXCEPT !.i = o.i + 1]
                              ELSE Goto([o EXCEPT !.i = o.i + 1], NextPc(o, "req"))]
    /\ UNCHANGED <<db, env, heard, cfg, store, index, inbox, subscribed, missed, dbCache, last, recording>>

\* The messages of context c now refer to a committed write.
MarkCommitted(c) ==
    [d \in Objs |->
        [k \in DOMAIN inbox[d] |->
            IF inbox[d][k].from = c
            THEN [inbox[d][k] EXCEPT !.committed = TRUE] ELSE inbox[d][k]]]

\* tx.done resolves: the transaction's writes become the store's contents.
Commit(c) ==
    /\ op[c].pc = "commit"
    /\ tx.owner = c
    /\ store' = tx.recs
    /\ index' = tx.idx
    /\ tx' = NoTx
    /\ op' = [op EXCEPT ![c] = Goto([op[c] EXCEPT !.committed = TRUE,
                                                  !.post = Kept(tx.recs)],
                                    NextPc(op[c], "commit"))]
    /\ inbox' = MarkCommitted(c)
    /\ UNCHANGED <<db, env, heard, cfg, subscribed, missed, dbCache, last, recording>>

\* A transaction whose operation was rejected by a thrown put(): with no
\* request pending the engine commits what the earlier requests wrote.
AutoCommit(c) ==
    /\ op[c].pc = "thrown"
    /\ tx.owner = c /\ tx.orphan
    /\ store' = tx.recs
    /\ index' = tx.idx
    /\ tx' = NoTx
    /\ op' = [op EXCEPT ![c] = [op[c] EXCEPT !.pc = "rejected",
                                             !.committed = TRUE,
                                             !.post = Kept(tx.recs)]]
    /\ UNCHANGED <<db, env, heard, cfg, inbox, subscribed, missed, dbCache, last, recording>>

\* ping(): bc?.postMessage({ t: 'changed' }).  With a channel the message
\* is queued at every receiving channel object; without BroadcastChannel
\* nothing is sent.  The fields from and committed are history: the sender
\* and whether its transaction had committed.
Ping(c) ==
    /\ op[c].pc = "ping"
    /\ IF Supported(c)
       THEN /\ \A d \in Receivers(c) : Len(inbox[d]) < MaxMsgs
            /\ inbox' = [d \in Objs |->
                            IF d \notin Receivers(c) THEN inbox[d]
                            ELSE Append(inbox[d], [from |-> c, t |-> "changed",
                                                   committed |-> op[c].committed])]
            /\ heard' = [d \in Objs |->
                            IF d \in Receivers(c) THEN NotHeard ELSE heard[d]]
            /\ op' = [op EXCEPT ![c] = Goto([op[c] EXCEPT !.sent = op[c].sent + 1],
                                            NextPc(op[c], "ping"))]
       ELSE /\ op' = [op EXCEPT ![c] = Goto(op[c], NextPc(op[c], "ping"))]
            /\ UNCHANGED <<inbox, heard>>
    /\ UNCHANGED <<db, env, cfg, store, index, tx, subscribed, missed, dbCache, last, recording>>

ReadOutcome(o) ==
    CASE o.name = "get" -> [err |-> "none", val |-> EngineGet(store, o.key)]
      [] o.name = "listAll" -> [err |-> "none", val |-> ListAll(store)]
      [] o.name = "search" ->
            [err |-> "none", val |-> Search(store, cfg.textSearchFields, o.q)]
      [] o.name = "listByIndex" -> ListByIndex(store, index, o.ixName, o.ixKey)

\* The outcomes of a read: one, except for a listAll sorted with a
\* comparator that does not order the rows.
ReadOutcomes(o) ==
    IF o.name = "listAll"
    THEN { [err |-> "none", val |-> v] : v \in ListAllSorted(store, o.orderBy, o.dir) }
    ELSE IF o.name = "exportJson"
    THEN { [err |-> "none", val |-> <<Envelope(ListAll(store), now)>>] : now \in Clock }
    ELSE IF o.name = "searchByTitle"
    THEN { [err |-> "none", val |-> v] : v \in SearchByTitle(store, index, o.q) }
    ELSE {ReadOutcome(o)}

\* The engine call of get, listAll, search or listByIndex.
Read(c) ==
    /\ op[c].pc = "read"
    /\ tx.owner = "none"
    /\ Turn(c)
    /\ \E out \in ReadOutcomes(op[c]) :
           op' = [op EXCEPT ![c] =
                    IF out.err = "none"
                    THEN Goto([op[c] EXCEPT !.val = out.val,
                                            !.pre = IF op[c].name = "exportJson"
                                                    THEN Kept(store) ELSE op[c].pre],
                              NextPc(op[c], "read"))
                    ELSE [op[c] EXCEPT !.pc = "rejected", !.res = out.err]]
    /\ UNCHANGED <<db, env, heard, cfg, store, index, tx, inbox, subscribed, missed, dbCache, last, recording>>

LastEntry(o) ==
    [name |-> o.name, key |-> o.key, rows |-> o.rows, res |-> o.res,
     sent |-> o.sent, exported |-> <<>>, snapshot |-> {}]

NoCall == LastEntry(IdleOp)

\* The caller takes the settled promise.
Return(c) ==
    /\ op[c].pc \in {"resolved", "rejected"}
    /\ op' = [op EXCEPT ![c] = IdleOp]
    /\ last' = IF recording /\ c = "A" /\ op[c].name \in Writes
               THEN [LastEntry(op[c]) EXCEPT !.exported = last.exported,
                                             !.snapshot = last.snapshot]
               ELSE IF recording /\ c = "A" /\ op[c].name = "exportJson"
               THEN [last EXCEPT !.exported = op[c].val, !.snapshot = op[c].pre]
               ELSE last
    /\ UNCHANGED <<db, env, heard, cfg, store, index, tx, inbox, subscribed, missed, dbCache, recording>>

\* onChange(fn) for listener h: without a channel it returns undefined and
\* registers nothing; otherwise a handler calling h is added to the channel
\* object and the function removing it is returned.
Subscribe(c, h) ==
    /\ h \in env.listeners[c]
    /\ subscribed[c][h] \in {"off", "removed"}
    /\ subscribed' = [subscribed EXCEPT ![c][h] =
                         IF Supported(c) THEN "on" ELSE "undefined"]
    /\ UNCHANGED <<db, env, heard, cfg, store, index, tx, op, inbox, missed, dbCache, last, recording>>

\* (variant) the returned function removes every handler of the channel
UnsubscribeAll(c, h) ==
    /\ subscribed[c][h] = "on"
    /\ subscribed' = [subscribed EXCEPT ![c] =
                         [g \in Handlers |->
                             IF subscribed[c][g] = "on" THEN "removed"
                             ELSE subscribed[c][g]]]
    /\ UNCHANGED <<db, env, heard, cfg, store, index, tx, op, inbox, missed, dbCache, last, recording>>

\* The function onChange returned is called: the handler is removed.  When
\* observing, "removed" keeps apart a listener that was unsubscribed from
\* one that never subscribed.
Unsubscribe(c, h) ==
    /\ subscribed[c][h] = "on"
    /\ subscribed' = [subscribed EXCEPT ![c][h] =
                         IF env.observe THEN "removed" ELSE "off"]
    /\ UNCHANGED <<db, env, heard, cfg, store, index, tx, op, inbox, missed, dbCache, last, recording>>

\* A message event is dispatched at store object c's channel object; every
\* registered handler calls its listener, which refetches from the
\* committed store.  heard records whom the event came from and which
\* listeners it invoked.
Deliver(c) ==
    /\ inbox[c] # <<>>
    /\ LET m == Head(inbox[c])
           changed == m.t = "changed"
           invoked == IF changed THEN Registered(c) ELSE {}
       IN  /\ missed' = [missed EXCEPT ![c] =
                            missed[c] \/ (invoked # {} /\ ~m.committed)]
           /\ heard' = IF env.observe
                       THEN [heard EXCEPT ![c] = [from |-> m.from, handlers |-> invoked]]
                       ELSE heard
    /\ inbox' = [inbox EXCEPT ![c] = Tail(inbox[c])]
    /\ UNCHANGED <<db, env, cfg, store, index, tx, op, subscribed, dbCache, last, recording>>

(***************************************************************************)
(* Inputs of the scenarios.                                                *)
(***************************************************************************)
In(name) ==
    [name |-> name, key |-> 0, rows |-> <<>>, dir |-> "omitted",
     orderBy |-> "none", q |-> <<>>, ixName |-> "none", ixKey |-> <<>>,
     kind |-> "none"]

Batches(S) == UNION { [1..n -> S] : n \in 0..MaxBatch }

BatchRecords == {Rec(1, V1), Rec(2, V1), Rec(NoKey, V1)}
ImportRecords == {Rec(2, V2)}
PutRecords == {Rec(1, V1), Rec(1, V2), Rec(2, V2), Rec(NoKey, V1)}
MainQueries == {<<"F", "O">>}

WriteInputs ==
    { [In("put") EXCEPT !.rows = <<r>>] : r \in PutRecords }
    \cup { [In("delete") EXCEPT !.key = k] : k \in Ids }
    \cup { In("clear") }
    \cup { [In("upsertMany") EXCEPT !.rows = b] : b \in Batches(BatchRecords) }
    \cup { [In("importJson") EXCEPT !.kind = "envelope", !.rows = b] :
              b \in Batches(ImportRecords) }
    \cup { [In("importJson") EXCEPT !.kind = k] :
              k \in {"noItems"} }

ReadInputs ==
    { [In("get") EXCEPT !.key = k] : k \in Ids }
    \cup { In("listAll") }
    \cup { [In("search") EXCEPT !.q = q] : q \in MainQueries }
    \cup { [In("listByIndex") EXCEPT !.ixName = n, !.ixKey = k] :
              n \in {"by_tags", "by_missing"}, k \in {StrA} }

\* Context A is the tab under study; context B is another tab writing to
\* the same collection.
Inputs(c) ==
    IF c = "A" THEN WriteInputs \cup ReadInputs
    ELSE { [In("put") EXCEPT !.rows = <<Rec(2, V1)>>] }

Init ==
    /\ cfg \in { [unique |-> u, textSearchFields |-> {"title", "tags", "code"}] :
                    u \in BOOLEAN }
    /\ store = {}
    /\ index = EmptyIndex
    /\ tx = NoTx
    /\ op = [c \in Ctx |-> IdleOp]
    /\ env = TwoTabs
    /\ heard = [o \in Objs |-> NotHeard]
    /\ inbox = [o \in Objs |-> <<>>]
    /\ subscribed = [o \in Objs |-> [h \in Handlers |-> "off"]]
    /\ missed = [o \in Objs |-> FALSE]
    /\ dbCache = NoCache
    /\ db = ExistingDb
    /\ last = NoCall
    /\ recording = FALSE

Next ==
    \E c \in Ctx :
        \/ \E in \in Inputs(c) : Call(c, in)
        \/ BeginTx(c)
        \/ Request(c)
        \/ Commit(c)
        \/ AutoCommit(c)
        \/ Ping(c)
        \/ Read(c)
        \/ Return(c)
        \/ \E h \in Handlers : Subscribe(c, h)
        \/ \E h \in Handlers : Unsubscribe(c, h)
        \/ Deliver(c)

Spec == Init /\ [][Next]_vars

(***************************************************************************)
(* Sequential scenarios: context A alone calls the store, one operation    *)
(* after the other, and the history variables are kept; context B only     *)
(* listens.                                                                *)
(***************************************************************************)
SeqImportRecords == {Rec(2, V2), Rec(2, V1)}

SeqInputs ==
    { [In("put") EXCEPT !.rows = <<r>>] : r \in ValidRecords \cup {Rec(NoKey, V1)} }
    \cup { [In("delete") EXCEPT !.key = k] : k \in Ids }
    \cup { In("clear") }
    \cup { [In("upsertMany") EXCEPT !.rows = b] : b \in Batches(BatchRecords) }
    \cup { [In("importJson") EXCEPT !.kind = "envelope", !.rows = b] :
              b \in Batches(SeqImportRecords) }
    \cup { [In("importJson") EXCEPT !.kind = k] : k \in MalformedKinds }
    \cup { [In("get") EXCEPT !.key = k] : k \in Ids }
    \cup { In("listAll") }
    \cup { [In("search") EXCEPT !.q = q] : q \in MainQueries }
    \cup { [In("listByIndex") EXCEPT !.ixName = n, !.ixKey = k] :
              n \in {"by_title", "by_tags", "by_missing"}, k \in {Foo, StrA} }

InitSeq ==
    /\ cfg \in { [unique |-> u, textSearchFields |-> {"title", "tags", "code"}] :
                    u \in BOOLEAN }
    /\ store = {}
    /\ index = EmptyIndex
    /\ tx = NoTx
    /\ op = [c \in Ctx |-> IdleOp]
    /\ env = TwoTabs
    /\ heard = [o \in Objs |-> NotHeard]
    /\ inbox = [o \in Objs |-> <<>>]
    /\ subscribed = [o \in Objs |-> [h \in Handlers |-> "off"]]
    /\ missed = [o \in Objs |-> FALSE]
    /\ dbCache = NoCache
    /\ db = ExistingDb
    /\ last = NoCall
    /\ recording = TRUE

NextSeq ==
    \/ \E in \in SeqInputs : Call("A", in)
    \/ BeginTx("A")
    \/ Request("A")
    \/ Commit("A")
    \/ AutoCommit("A")
    \/ Ping("A")
    \/ Read("A")
    \/ Return("A")
    \/ \E h \in Handlers : Subscribe("B", h)
    \/ \E h \in Handlers : Unsubscribe("B", h)
    \/ Deliver("B")

SpecSeq == InitSeq /\ [][NextSeq]_vars

(***************************************************************************)
(* Search scenarios: the collection, the configured text-search fields     *)
(* and the query are drawn from bounded sets and search is applied.        *)
(***************************************************************************)
V3 == [title |-> <<"A", "SIGMA">>, tags |-> <<>>, code |-> <<"a", SP, "b">>,
       updatedAt |-> 300]
SearchRecords == { Rec(i, v) : i \in Ids, v \in Variants \cup {V3} }
SearchStores ==
    { S \in SUBSET SearchRecords : \A x, y \in S : x.id = y.id => x = y }
QueryChars == {"f", "O", "a", "SIGMA", SP, TAB}
Queries == UNION { [1..n -> QueryChars] : n \in 0..MaxQueryLen }

\* The index entries the engine holds for a set of records.
BuildIndex(recs) ==
    [n \in IndexNames |-> UNION { EntriesOf(n, r) : r \in recs }]

InitSearch ==
    /\ cfg \in { [unique |-> FALSE, textSearchFields |-> F] :
                    F \in SUBSET {"title", "tags", "code"} }
    /\ store \in SearchStores
    /\ index = BuildIndex(store)
    /\ tx = NoTx
    /\ op = [c \in Ctx |-> IdleOp]
    /\ env = TwoTabs
    /\ heard = [o \in Objs |-> NotHeard]
    /\ inbox = [o \in Objs |-> <<>>]
    /\ subscribed = [o \in Objs |-> [h \in Handlers |-> "off"]]
    /\ missed = [o \in Objs |-> FALSE]
    /\ dbCache = NoCache
    /\ db = ExistingDb
    /\ last = NoCall
    /\ recording = FALSE

\* the calls of the search scenarios: search(q) for each query, and listAll()
SearchInputs ==
    { [In("search") EXCEPT !.q = q] : q \in Queries } \cup { In("listAll") }

NextSearch ==
    \/ \E in \in SearchInputs : Call("A", in)
    \/ Read("A")
    \/ Return("A")

SpecSearch == InitSearch /\ [][NextSearch]_vars

(***************************************************************************)
(* Sorting scenarios: a collection whose records hold a number or nothing  *)
(* in updatedAt is listed with every orderBy and dir.                      *)
(***************************************************************************)
ListValues == {100, 200, Undefined}
ListRecords ==
    { [Rec(i, V1) EXCEPT !.updatedAt = u] : i \in 1..MaxListed, u \in ListValues }
ListStores ==
    { S \in SUBSET ListRecords : \A x, y \in S : x.id = y.id => x = y }
ListInputs ==
    { [In("listAll") EXCEPT !.orderBy = f, !.dir = d] :
         f \in {"none", "updatedAt", "id"}, d \in {"omitted", "asc", "desc"} }

InitList ==
    /\ cfg = [unique |-> FALSE, textSearchFields |-> {"title", "tags", "code"}]
    /\ store \in ListStores
    /\ index = BuildIndex(store)
    /\ tx = NoTx
    /\ op = [c \in Ctx |-> IdleOp]
    /\ env = TwoTabs
    /\ heard = [o \in Objs |-> NotHeard]
    /\ inbox = [o \in Objs |-> <<>>]
    /\ subscribed = [o \in Objs |-> [h \in Handlers |-> "off"]]
    /\ missed = [o \in Objs |-> FALSE]
    /\ dbCache = NoCache
    /\ db = ExistingDb
    /\ last = NoCall
    /\ recording = FALSE

NextList ==
    \/ \E in \in ListInputs : Call("A", in)
    \/ Read("A")
    \/ Return("A")

SpecList == InitList /\ [][NextList]_vars

(***************************************************************************)
(* Export scenarios: a collection is exported, emptied, and the exported   *)
(* text is imported again.  updatedAt holds a number, NaN or nothing.      *)
(***************************************************************************)
ExportValues == {100, NotANumber, Undefined}
ExportRecords ==
    { [Rec(i, v) EXCEPT !.updatedAt = u] : i \in Ids, v \in Variants, u \in ExportValues }
ExportStores ==
    { S \in SUBSET ExportRecords : \A x, y \in S : x.id = y.id => x = y }

InitExport ==
    /\ cfg = [unique |-> FALSE, textSearchFields |-> {"title", "tags", "code"}]
    /\ store \in ExportStores
    /\ index = BuildIndex(store)
    /\ tx = NoTx
    /\ op = [c \in Ctx |-> IdleOp]
    /\ env = TwoTabs
    /\ heard = [o \in Objs |-> NotHeard]
    /\ inbox = [o \in Objs |-> <<>>]
    /\ subscribed = [o \in Objs |-> [h \in Handlers |-> "off"]]
    /\ missed = [o \in Objs |-> FALSE]
    /\ dbCache = NoCache
    /\ db = ExistingDb
    /\ last = NoCall
    /\ recording = TRUE

\* importJson(text) for the text the last exportJson returned
ImportExported ==
    /\ last.exported # <<>>
    /\ Call("A", [In("importJson") EXCEPT !.kind = "envelope",
                                          !.rows = last.exported[1].items])

\* the calls of the export scenarios besides the import: exportJson(), clear()
ExportInputs == { In("exportJson"), In("clear") }

NextExport ==
    \/ \E in \in ExportInputs : Call("A", in)
    \/ ImportExported
    \/ BeginTx("A")
    \/ Request("A")
    \/ Commit("A")
    \/ Ping("A")
    \/ Read("A")
    \/ Return("A")
    \/ Deliver("B")

SpecExport == InitExport /\ [][NextExport]_vars

(***************************************************************************)
(* Channel scenarios: store objects A and A2 in one tab and B in another,  *)
(* all three created for the same dbName and storeName; BroadcastChannel   *)
(* may be missing in either tab.  A writes; A2 and B listen, B with two    *)
(* listeners.                                                              *)
(***************************************************************************)
ChanEnvs ==
    { [tab |-> SplitTabs,
       lib |-> [o \in Objs |-> "db"],
       names |-> [o \in Objs |-> SnippetsNames],
       supported |-> sp,
       created |-> {"A", "B", "A2"},
       version |-> [o \in Objs |-> SnippetsVersion],
       listeners |-> [o \in Objs |->
                        IF o = "B" THEN Handlers ELSE IF o = "A2" THEN {1} ELSE {}],
       observe |-> TRUE] : sp \in [Tabs -> BOOLEAN] }

ChanInputs ==
    { [In("put") EXCEPT !.rows = <<Rec(1, V1)>>],
      [In("delete") EXCEPT !.key = 1],
      In("clear"),
      [In("upsertMany") EXCEPT !.rows = <<Rec(1, V1)>>],
      [In("importJson") EXCEPT !.kind = "envelope", !.rows = <<Rec(1, V1)>>] }

InitChan ==
    /\ env \in ChanEnvs
    /\ heard = [o \in Objs |-> NotHeard]
    /\ cfg = [unique |-> FALSE, textSearchFields |-> {"title", "tags", "code"}]
    /\ store = {}
    /\ index = EmptyIndex
    /\ tx = NoTx
    /\ op = [c \in Ctx |-> IdleOp]
    /\ inbox = [o \in Objs |-> <<>>]
    /\ subscribed = [o \in Objs |-> [h \in Handlers |-> "off"]]
    /\ missed = [o \in Objs |-> FALSE]
    /\ dbCache = NoCache
    /\ db = ExistingDb
    /\ last = NoCall
    /\ recording = FALSE

NextChan ==
    \/ \E in \in ChanInputs : Call("A", in)
    \/ BeginTx("A")
    \/ Request("A")
    \/ Commit("A")
    \/ Ping("A")
    \/ Return("A")
    \/ \E o \in Objs :
          \/ \E h \in Handlers : Subscribe(o, h)
          \/ \E h \in Handlers : Unsubscribe(o, h)
          \/ Deliver(o)

SpecChan == InitChan /\ [][NextChan]_vars

\* The broadcast transport delivers the messages it has queued.
SpecChanLive == SpecChan /\ \A o \in Objs : WF_vars(Deliver(o))

(***************************************************************************)
(* Naming scenarios: store object A, in one tab, writes to its collection; *)
(* store object C, in the other tab, listens on a collection of its own.   *)
(* The dbName and storeName of both are drawn from the names over a letter *)
(* and the colon.                                                          *)
(***************************************************************************)
NameChars == {"d", ":"}
Names == UNION { [1..n -> NameChars] : n \in 1..MaxNameLen }
NamePairs == { [dbName |-> d, storeName |-> t] : d \in Names, t \in Names }

NameEnvs ==
    { [tab |-> SplitTabs,
       lib |-> [o \in Objs |-> "db"],
       names |-> [o \in Objs |-> IF o = "C" THEN q ELSE p],
       supported |-> [t \in Tabs |-> TRUE],
       created |-> {"A", "C"},
       version |-> [o \in Objs |-> SnippetsVersion],
       listeners |-> [o \in Objs |-> IF o = "C" THEN {1} ELSE {}],
       observe |-> TRUE] : p \in NamePairs, q \in NamePairs }

InitNames ==
    /\ env \in NameEnvs
    /\ heard = [o \in Objs |-> NotHeard]
    /\ cfg = [unique |-> FALSE, textSearchFields |-> {"title", "tags", "code"}]
    /\ store = {}
    /\ index = EmptyIndex
    /\ tx = NoTx
    /\ op = [c \in Ctx |-> IdleOp]
    /\ inbox = [o \in Objs |-> <<>>]
    /\ subscribed = [o \in Objs |-> [h \in Handlers |-> "off"]]
    /\ missed = [o \in Objs |-> FALSE]
    /\ dbCache = NoCache
    /\ db = ExistingDb
    /\ last = NoCall
    /\ recording = FALSE

\* the one write of the naming scenarios: put of a valid record
NameInputs == { [In("put") EXCEPT !.rows = <<Rec(1, V1)>>] }

NextNames ==
    \/ \E in \in NameInputs : Call("A", in)
    \/ BeginTx("A")
    \/ Request("A")
    \/ Commit("A")
    \/ Ping("A")
    \/ Return("A")
    \/ Subscribe("C", 1)
    \/ Unsubscribe("C", 1)
    \/ Deliver("C")

SpecNames == InitNames /\ [][NextNames]_vars

(***************************************************************************)
(* Database scenarios: no database exists yet.  A and B are two callers    *)
(* whose operations may be in flight together; B is created in A's tab or  *)
(* in another one, from A's configuration or from one that differs in the  *)
(* storeName or in the version.  The engine's storage may be failing at    *)
(* first.  BroadcastChannel is not defined.                                *)
(***************************************************************************)
OtherStore == <<"t">>

DbConfigs ==
    { [names |-> n, version |-> v] :
         n \in {SnippetsNames, [SnippetsNames EXCEPT !.storeName = OtherStore]},
         v \in SnippetsVersion..MaxVersion }

DbEnvs ==
    { [tab |-> [o \in Objs |-> IF o = "B" THEN t ELSE "T1"],
       lib |-> [o \in Objs |-> "db"],
       names |-> [o \in Objs |-> IF o = "B" THEN b.names ELSE SnippetsNames],
       supported |-> [x \in Tabs |-> FALSE],
       created |-> Ctx,
       version |-> [o \in Objs |-> IF o = "B" THEN b.version ELSE SnippetsVersion],
       listeners |-> [o \in Objs |-> {}],
       observe |-> FALSE] :
         t \in Tabs,
         b \in { x \in DbConfigs : x.names = SnippetsNames \/ x.version = SnippetsVersion } }

DbInputs ==
    { [In("put") EXCEPT !.rows = <<r>>] : r \in {Rec(1, V1), Rec(NoKey, V1)} }
    \cup { [In("delete") EXCEPT !.key = 1] }
    \cup { [In("get") EXCEPT !.key = 1] }
    \cup { In("listAll") }
    \cup { [In("listByIndex") EXCEPT !.ixName = "by_missing", !.ixKey = StrA] }
    \cup { [In("importJson") EXCEPT !.kind = "notJson"] }

InitDb ==
    /\ env \in DbEnvs
    /\ heard = [o \in Objs |-> NotHeard]
    /\ cfg = [unique |-> FALSE, textSearchFields |-> {"title", "tags", "code"}]
    /\ store = {}
    /\ index = EmptyIndex
    /\ tx = NoTx
    /\ op = [c \in Ctx |-> IdleOp]
    /\ inbox = [o \in Objs |-> <<>>]
    /\ subscribed = [o \in Objs |-> [h \in Handlers |-> "off"]]
    /\ missed = [o \in Objs |-> FALSE]
    /\ dbCache = NoCache
    /\ db \in { NewDb(0, <<>>, f) : f \in BOOLEAN }
    /\ last = NoCall
    /\ recording = FALSE

NextDb ==
    \/ Recover
    \/ \E c \in Ctx :
          \/ \E in \in DbInputs : Invoke(c, in)
          \/ Open(c)
          \/ Resume(c)
          \/ BeginTx(c)
          \/ Request(c)
          \/ Commit(c)
          \/ AutoCommit(c)
          \/ Ping(c)
          \/ Read(c)
          \/ Return(c)

SpecDb == InitDb /\ [][NextDb]_vars

\* The engine answers every request it can answer and the event loop runs
\* every continuation that is ready; callers need not call again.
SpecDbLive ==
    /\ SpecDb
    /\ \A c \in Ctx :
          /\ WF_vars(Open(c)) /\ WF_vars(Resume(c)) /\ WF_vars(BeginTx(c))
          /\ WF_vars(Request(c)) /\ WF_vars(Commit(c)) /\ WF_vars(AutoCommit(c))
          /\ WF_vars(Ping(c)) /\ WF_vars(Read(c))

(***************************************************************************)
(* Upgrade scenarios: an earlier deployment left the database at the       *)
(* Snippets version, without the object store or with the store, some of   *)
(* the indexes (by_title unique or not, and possibly an index the          *)
(* configuration no longer names) and some records.  The configuration now *)
(* asks for the next version.                                              *)
(***************************************************************************)
LegacyIndex == "by_code"

UpgradeDefs ==
    { f \in UNION { [N -> [unique : BOOLEAN, multiEntry : BOOLEAN]] :
                      N \in SUBSET (IndexNames \cup {LegacyIndex}) } :
        \A n \in DOMAIN f :
            /\ f[n].multiEntry = (n = "by_tags")
            /\ f[n].unique => n = "by_title" }

UpgradeSchemas ==
    {<<>>} \cup { (SnippetsNames.storeName :> f) : f \in UpgradeDefs }

UpgradeRecords == {Rec(1, V1), Rec(2, V1), Rec(2, V2)}

\* The collections an object store of that schema can hold.
UpgradeStores(schema) ==
    IF schema = <<>> THEN {{}}
    ELSE { S \in SUBSET UpgradeRecords :
             /\ \A x, y \in S : x.id = y.id => x = y
             /\ \A s \in DOMAIN schema : \A n \in DOMAIN schema[s] :
                    schema[s][n].unique =>
                        \A x, y \in S : x.title = y.title => x = y }

UpgradeEnv ==
    [tab |-> SplitTabs,
     lib |-> [o \in Objs |-> "db"],
     names |-> [o \in Objs |-> SnippetsNames],
     supported |-> [t \in Tabs |-> FALSE],
     created |-> {"A"},
     version |-> [o \in Objs |-> SnippetsVersion + 1],
     listeners |-> [o \in Objs |-> {}],
     observe |-> FALSE]

UpgradeInputs ==
    { [In("put") EXCEPT !.rows = <<Rec(2, V1)>>], In("listAll"),
      [In("listByIndex") EXCEPT !.ixName = "by_title", !.ixKey = Foo] }

InitUpgrade ==
    /\ env = UpgradeEnv
    /\ heard = [o \in Objs |-> NotHeard]
    /\ cfg \in { [unique |-> u, textSearchFields |-> {"title", "tags", "code"}] :
                    u \in BOOLEAN }
    /\ db \in { NewDb(SnippetsVersion, sch, FALSE) : sch \in UpgradeSchemas }
    /\ store \in UpgradeStores(db.schema)
    /\ index = BuildIndex(store)
    /\ tx = NoTx
    /\ op = [c \in Ctx |-> IdleOp]
    /\ inbox = [o \in Objs |-> <<>>]
    /\ subscribed = [o \in Objs |-> [h \in Handlers |-> "off"]]
    /\ missed = [o \in Objs |-> FALSE]
    /\ dbCache = NoCache
    /\ last = NoCall
    /\ recording = FALSE

NextUpgrade ==
    \/ \E in \in UpgradeInputs : Invoke("A", in)
    \/ Open("A")
    \/ Resume("A")
    \/ BeginTx("A")
    \/ Request("A")
    \/ Commit("A")
    \/ Ping("A")
    \/ Read("A")
    \/ Return("A")

SpecUpgrade == InitUpgrade /\ [][NextUpgrade]_vars

(***************************************************************************)
(* Program-order scenarios: A and B are two calls on the Snippets store in *)
(* one tab, made in either order and neither awaited before the other is   *)
(* made.  An earlier session left the database with some records; the tab  *)
(* has not opened it yet.                                                  *)
(***************************************************************************)
OrderStores == {{}, {Rec(1, V1)}, {Rec(1, V1), Rec(2, V2)}}

OrderEnv ==
    [tab |-> [o \in Objs |-> "T1"],
     lib |-> [o \in Objs |-> "db"],
     names |-> [o \in Objs |-> SnippetsNames],
     supported |-> [t \in Tabs |-> FALSE],
     created |-> Ctx,
     version |-> [o \in Objs |-> SnippetsVersion],
     listeners |-> [o \in Objs |-> {}],
     observe |-> FALSE]

OrderInputs ==
    { [In("put") EXCEPT !.rows = <<r>>] : r \in {Rec(1, V1), Rec(1, V2)} }
    \cup { [In("delete") EXCEPT !.key = 1], In("clear") }
    \cup { [In("upsertMany") EXCEPT !.rows = <<Rec(1, V1), Rec(2, V1)>>] }
    \cup { [In("importJson") EXCEPT !.kind = "envelope", !.rows = <<Rec(2, V2)>>] }
    \cup { [In("get") EXCEPT !.key = 1], In("listAll"), In("exportJson") }
    \cup { [In("search") EXCEPT !.q = <<"F", "O">>] }
    \cup { [In("listByIndex") EXCEPT !.ixName = "by_title", !.ixKey = Foo] }

InitOrder ==
    /\ env = OrderEnv
    /\ heard = [o \in Objs |-> NotHeard]
    /\ cfg = [unique |-> FALSE, textSearchFields |-> {"title", "tags", "code"}]
    /\ store \in OrderStores
    /\ index = BuildIndex(store)
    /\ tx = NoTx
    /\ op = [c \in Ctx |-> IdleOp]
    /\ inbox = [o \in Objs |-> <<>>]
    /\ subscribed = [o \in Objs |-> [h \in Handlers |-> "off"]]
    /\ missed = [o \in Objs |-> FALSE]
    /\ dbCache = NoCache
    /\ db = ExistingDb
    /\ last = NoCall
    /\ recording = FALSE

NextOrder ==
    \E c \in Ctx :
        \/ \E in \in OrderInputs : Invoke(c, in)
        \/ Open(c)
        \/ Resume(c)
        \/ BeginTx(c)
        \/ Request(c)
        \/ Commit(c)
        \/ Ping(c)
        \/ Read(c)

SpecOrder == InitOrder /\ [][NextOrder]_vars

(***************************************************************************)
(* The application: two tabs show the list view, which reads and writes    *)
(* through the generic Snippets store of its tab (B in tab T2) and         *)
(* subscribes to that store's onChange.  A is the store a write of tab T1  *)
(* goes through: the generic Snippets (create, delete, import, clear), or  *)
(* the hand-written Snippets of idb.ts, which the snippet editor saves     *)
(* with; then A2 is the generic store of T1.  C is idb.ts loaded in T2;    *)
(* nothing subscribes to it.                                               *)
(***************************************************************************)
AppEnvs ==
    { [tab |-> SplitTabs,
       lib |-> [o \in Objs |-> IF o = "C" \/ (o = "A" /\ editor) THEN "idb" ELSE "db"],
       names |-> [o \in Objs |-> SnippetsNames],
       supported |-> sp,
       created |-> IF editor THEN Objs ELSE Objs \ {"A2"},
       version |-> [o \in Objs |-> SnippetsVersion],
       listeners |-> [o \in Objs |->
                        IF o = "B" \/ (o = "A2" /\ editor) \/ (o = "A" /\ ~editor)
                        THEN {1} ELSE {}],
       observe |-> TRUE] : sp \in [Tabs -> BOOLEAN], editor \in BOOLEAN }

\* The writes the application makes through store A: the editor's save, or
\* the list view's create and delete and the settings page's import and
\* clear.
AppInputs ==
    IF env.lib["A"] = "idb"
    THEN { [In("put") EXCEPT !.rows = <<Rec(1, V1)>>],
           [In("put") EXCEPT !.rows = <<Rec(1, V2)>>] }
    ELSE { [In("put") EXCEPT !.rows = <<Rec(1, V1)>>],
           [In("delete") EXCEPT !.key = 1],
           In("clear"),
           [In("importJson") EXCEPT !.kind = "envelope", !.rows = <<Rec(1, V1)>>] }

InitApp ==
    /\ env \in AppEnvs
    /\ heard = [o \in Objs |-> NotHeard]
    /\ cfg = [unique |-> FALSE, textSearchFields |-> {"title", "tags", "code"}]
    /\ store = {}
    /\ index = EmptyIndex
    /\ tx = NoTx
    /\ op = [c \in Ctx |-> IdleOp]
    /\ inbox = [o \in Objs |-> <<>>]
    /\ subscribed = [o \in Objs |-> [h \in Handlers |-> "off"]]
    /\ missed = [o \in Objs |-> FALSE]
    /\ dbCache = NoCache
    /\ db = ExistingDb
    /\ last = NoCall
    /\ recording = FALSE

NextApp ==
    \/ \E in \in AppInputs : Call("A", in)
    \/ BeginTx("A")
    \/ Request("A")
    \/ Commit("A")
    \/ Ping("A")
    \/ Return("A")
    \/ \E o \in Objs :
          \/ \E h \in Handlers : Subscribe(o, h)
          \/ \E h \in Handlers : Unsubscribe(o, h)
          \/ Deliver(o)

SpecApp == InitApp /\ [][NextApp]_vars

(***************************************************************************)
(* Both stores on one collection: A is the generic Snippets store and B    *)
(* the hand-written Snippets of idb.ts, in one tab, over the same database *)
(* and object store.  A collection of well-formed snippets is there; A is  *)
(* asked search(q) and B searchByTitle(q) for the same query.              *)
(***************************************************************************)
BothEnv ==
    [tab |-> [o \in Objs |-> "T1"],
     lib |-> [o \in Objs |-> IF o = "B" THEN "idb" ELSE "db"],
     names |-> [o \in Objs |-> SnippetsNames],
     supported |-> [t \in Tabs |-> TRUE],
     created |-> Ctx,
     version |-> [o \in Objs |-> SnippetsVersion],
     listeners |-> [o \in Objs |-> {}],
     observe |-> FALSE]

BothInputs(c) ==
    IF c = "A" THEN { [In("search") EXCEPT !.q = q] : q \in Queries }
    ELSE { [In("searchByTitle") EXCEPT !.q = op["A"].q] }

InitBoth ==
    /\ env = BothEnv
    /\ heard = [o \in Objs |-> NotHeard]
    /\ cfg = [unique |-> FALSE, textSearchFields |-> {"title", "tags", "code"}]
    /\ store \in SearchStores
    /\ index = BuildIndex(store)
    /\ tx = NoTx
    /\ op = [c \in Ctx |-> IdleOp]
    /\ inbox = [o \in Objs |-> <<>>]
    /\ subscribed = [o \in Objs |-> [h \in Handlers |-> "off"]]
    /\ missed = [o \in Objs |-> FALSE]
    /\ dbCache = NoCache
    /\ db = ExistingDb
    /\ last = NoCall
    /\ recording = FALSE

NextBoth ==
    \/ \E in \in BothInputs("A") : Call("A", in)
    \/ \E in \in BothInputs("B") : op["A"].name = "search" /\ Call("B", in)
    \/ \E c \in Ctx : Read(c)

SpecBoth == InitBoth /\ [][NextBoth]_vars

(***************************************************************************)
(* Reading scenarios: store A, in one tab, reads a collection that holds   *)
(* records, with every read operation, while store B, in another tab,      *)
(* writes to it.  The engine's storage may fail when A's database is       *)
(* opened, and a listByIndex may name an index that does not exist.        *)
(***************************************************************************)
ReadsInputs(c) ==
    IF c = "B"
    THEN { [In("put") EXCEPT !.rows = <<Rec(2, V1)>>], [In("delete") EXCEPT !.key = 1] }
    ELSE { [In("get") EXCEPT !.key = k] : k \in Ids }
         \cup { [In("listAll") EXCEPT !.orderBy = o] : o \in {"none", "updatedAt"} }
         \cup { In("exportJson") }
         \cup { [In("search") EXCEPT !.q = q] : q \in {<<>>, <<"F", "O">>} }
         \cup { [In("listByIndex") EXCEPT !.ixName = n, !.ixKey = Foo] :
                   n \in {"by_title", "by_missing"} }

InitReads ==
    /\ env = TwoTabs
    /\ heard = [o \in Objs |-> NotHeard]
    /\ cfg = [unique |-> FALSE, textSearchFields |-> {"title", "tags", "code"}]
    /\ store \in OrderStores
    /\ index = BuildIndex(store)
    /\ tx = NoTx
    /\ op = [c \in Ctx |-> IdleOp]
    /\ inbox = [o \in Objs |-> <<>>]
    /\ subscribed = [o \in Objs |-> [h \in Handlers |-> "off"]]
    /\ missed = [o \in Objs |-> FALSE]
    /\ dbCache = NoCache
    /\ db \in { [ExistingDb EXCEPT !.fault = f] : f \in BOOLEAN }
    /\ last = NoCall
    /\ recording = FALSE

NextReads ==
    \/ Recover
    \/ \E c \in Ctx :
          \/ \E in \in ReadsInputs(c) : Invoke(c, in)
          \/ Open(c)
          \/ Resume(c)
          \/ BeginTx(c)
          \/ Request(c)
          \/ Commit(c)
          \/ Ping(c)
          \/ Read(c)
          \/ Return(c)
    \/ \E o \in Objs : Deliver(o)

SpecReads == InitReads /\ [][NextReads]_vars

\* The records the model keeps are those of one object store: no scenario
\* has two object stores on disk.
OneObjectStore == Cardinality(DOMAIN db.schema) <= 1

(***************************************************************************)
(* Properties.                                                             *)
(***************************************************************************)
UniqueKeys(recs) == \A x, y \in recs : x.id = y.id => x = y

PutLike(o) == o.name \in {"put", "upsertMany", "importJson"}

Elems(seq) == { seq[i] : i \in DOMAIN seq }

\* C1: the collection (and the contents of a running transaction) holds at
\* most one record per key; a put-like write is rejected with
\* ConstraintError only where a unique index is configured and another
\* record, never the one stored under the same key, holds the value; and
\* once a row has been written it is, in full, the only record of its key.
C1_OneRecordPerKey ==
    /\ UniqueKeys(store)
    /\ UniqueKeys(tx.recs)
    /\ \A c \in Ctx :
         LET o == op[c]
         IN  /\ (PutLike(o) /\ o.res = "ConstraintError")
                    => (cfg.unique /\ o.rows[o.i].id \notin o.culprits)
             /\ (PutLike(o) /\ tx.owner = c /\ o.i > 1)
                    => /\ o.rows[o.i - 1] \in tx.recs
                       /\ \A x \in tx.recs :
                             x.id = o.rows[o.i - 1].id => x = o.rows[o.i - 1]

\* C1 witness: a put over a stored record with other field values has been
\* executed (the store still holds the old record, the transaction the new).
C1_Witness ==
    /\ op["A"].name = "put" /\ op["A"].pc = "commit" /\ tx.owner = "A"
    /\ \E x \in store : x.id = op["A"].rows[1].id /\ x # op["A"].rows[1]

\* C4: an upsertMany that resolves has sent exactly one message, after its
\* transaction committed; one that fails has sent none.
C4_OneMessagePerBatch ==
    \A c \in Ctx :
        LET o == op[c]
        IN  o.name = "upsertMany" =>
              /\ o.sent <= 1
              /\ (o.sent > 0 => o.committed)
              /\ (o.pc = "resolved" => o.sent = 1 /\ o.committed)
              /\ (o.pc \in {"thrown", "rejected"} => o.sent = 0)

\* C4 witness: a batch of two rows has resolved, with its one message sent.
C4_Witness ==
    /\ op["A"].name = "upsertMany" /\ op["A"].pc = "resolved"
    /\ Len(op["A"].rows) = 2 /\ op["A"].sent = 1

\* C5: a write resolves and sends its message only after its transaction
\* committed, a failed write sends nothing, every queued message refers to
\* a committed write and no refetch ran before the write it was told of.
C5_PingAfterCommit ==
    /\ \A c \in Ctx : \A k \in DOMAIN inbox[c] : inbox[c][k].committed
    /\ \A c \in Ctx : ~missed[c]
    /\ \A c \in Ctx :
         LET o == op[c]
         IN  o.name \in Writes =>
               /\ (o.sent > 0 => o.committed)
               /\ (o.pc = "resolved" => o.committed /\ o.sent = 1)
               /\ (o.res \notin {"none", "ok"} => o.sent = 0)

\* C5 witness: a put of context A has resolved and its message is queued at
\* the subscribed context B.
C5_Witness ==
    /\ op["A"].name = "put" /\ op["A"].pc = "resolved"
    /\ Registered("B") # {} /\ inbox["B"] # <<>>

IndexedKeys(name) ==
    CASE name = "by_title" -> { v.title : v \in Variants }
      [] name = "by_updatedAt" -> { v.updatedAt : v \in Variants }
      [] name = "by_tags" -> UNION { Elems(v.tags) : v \in Variants }

HasIndexValue(r, name, key) ==
    CASE name = "by_title" -> r.title = key
      [] name = "by_updatedAt" -> r.updatedAt = key
      [] name = "by_tags" -> key \in Elems(r.tags)

\* C10: in every state, listByIndex(indexName, key) returns, once each,
\* exactly the stored records whose indexed field equals key or, for the
\* multiEntry index by_tags, has key among its elements.
C10_ListByIndexExact ==
    \A n \in IndexNames : \A k \in IndexedKeys(n) :
        LET out == ListByIndex(store, index, n, k)
        IN  /\ out.err = "none"
            /\ Elems(out.val) = { r \in store : HasIndexValue(r, n, k) }
            /\ Cardinality(Elems(out.val)) = Len(out.val)

\* C10 witness: listByIndex("by_tags", "a") has returned the record whose
\* tags are ["a", "b"], which is also what the index holds under "b".
C10_Witness ==
    /\ op["A"].name = "listByIndex" /\ op["A"].pc = "resolved"
    /\ op["A"].ixName = "by_tags" /\ op["A"].ixKey = StrA
    /\ op["A"].val = <<Rec(1, V2)>>
    /\ ListByIndex(store, index, "by_tags", StrB).val = <<Rec(1, V2)>>

\* C2: put(r) followed by get(r.key), with no write in between, returns r; a
\* second put(r) leaves the number of records listAll() returns unchanged;
\* and where no unique index is configured a put of a record with a valid
\* key always resolves.
C2_PutThenGet ==
    LET o == op["A"]
        r == last.rows[1]
    IN  /\ (last.name = "put" /\ last.res = "ok" /\ o.name = "get"
              /\ o.key = r.id /\ o.pc = "resolved") => o.val = <<r>>
        /\ (last.name = "put" /\ last.res = "ok" /\ o.name = "put"
              /\ o.rows = last.rows /\ o.pc = "resolved")
                 => Len(ListAll(o.post)) = Len(ListAll(o.pre))
        /\ (o.name = "put" /\ o.rows[1].id \in Ids /\ ~cfg.unique)
                 => o.res \in {"none", "ok"}

\* C2 witness: get(1) has returned the record just put over a different
\* record of the same key.
C2_Witness ==
    /\ last.name = "put" /\ last.res = "ok" /\ last.rows = <<Rec(1, V2)>>
    /\ op["A"].name = "get" /\ op["A"].key = 1 /\ op["A"].pc = "resolved"
    /\ op["A"].val = <<Rec(1, V2)>>

\* C3 (as claimed): an upsertMany whose promise rejects leaves the
\* collection as it was when its transaction began.
C3_BatchAtomic ==
    LET o == op["A"]
    IN  (o.name = "upsertMany" /\ o.pc = "rejected") => o.post = o.pre

\* The example of C3 taken alone: a batch rejected by a unique-index
\* violation leaves the collection unchanged.
BatchAbortedByConstraint ==
    LET o == op["A"]
    IN  (o.name \in {"upsertMany", "importJson"} /\ o.pc = "rejected"
           /\ o.res = "ConstraintError") => o.post = o.pre

\* C6: delete never fails; it removes the record of key k and no other, so
\* when no record has key k the collection is as before.
C6_DeleteExact ==
    LET o == op["A"]
    IN  o.name = "delete" =>
          /\ o.res \in {"none", "ok"}
          /\ o.pc # "rejected"
          /\ o.committed =>
               /\ o.post = { r \in o.pre : r.id # o.key }
               /\ (\A r \in o.pre : r.id # o.key) => ListAll(o.post) = ListAll(o.pre)

\* C6 witness: delete(2) has resolved in a collection that held key 1 only.
C6_Witness ==
    /\ op["A"].name = "delete" /\ op["A"].key = 2 /\ op["A"].pc = "resolved"
    /\ op["A"].pre = {Rec(1, V1)} /\ op["A"].post = {Rec(1, V1)}

\* C7: clear never fails and sends exactly one message; after it, until the
\* next write, the collection and its indexes are empty and every read
\* (get, listAll, search, listByIndex) returns nothing.
C7_ClearEmpties ==
    LET o == op["A"]
        quiet == o.name \notin Writes \/ ~o.committed
    IN  /\ o.name = "clear" =>
              /\ o.res \in {"none", "ok"}
              /\ (o.pc = "resolved" => o.sent = 1 /\ o.post = {})
        /\ last.name = "clear" =>
              /\ last.res = "ok" /\ last.sent = 1
              /\ quiet => /\ ListAll(store) = <<>>
                          /\ \A n \in IndexNames : \A k \in IndexedKeys(n) :
                                ListByIndex(store, index, n, k).val = <<>>
                          /\ \A k \in Ids : EngineGet(store, k) = <<>>
              /\ (o.name \in Reads /\ o.pc = "resolved") => o.val = <<>>

\* C7 witness: listAll has returned the empty list after a clear of a
\* collection that held records.
C7_Witness ==
    /\ last.name = "clear" /\ last.res = "ok"
    /\ op["A"].name = "listAll" /\ op["A"].pc = "resolved" /\ op["A"].val = <<>>
    /\ inbox["B"] # <<>>

RECURSIVE Stripped(_)
\* A string without its leading and trailing whitespace.
Stripped(s) ==
    IF s = <<>> THEN s
    ELSE IF Head(s) \in Whitespace THEN Stripped(Tail(s))
    ELSE IF s[Len(s)] \in Whitespace THEN Stripped(SubSeq(s, 1, Len(s) - 1))
    ELSE s

\* Case folding: two characters that differ only in case fold alike.
Fold(c) == IF c \in {"SIGMA", "sigma", "fsigma"} THEN "sigma" ELSE LowerChar(c)

\* s contains q as a case-insensitive substring.
ContainsNoCase(s, q) ==
    \E k \in 0..(Len(s) - Len(q)) : \A j \in 1..Len(q) : Fold(s[k + j]) = Fold(q[j])

\* the lower-cased s contains the lower-cased t.
ContainsLowered(s, t) ==
    LET ls == ToLowerCase(s)
        lt == ToLowerCase(t)
    IN  \E k \in 0..(Len(ls) - Len(lt)) : \A j \in 1..Len(lt) : ls[k + j] = lt[j]

\* Some configured field of r (or an element of it, for tags) satisfies P.
SomeField(r, P(_)) ==
    \E f \in cfg.textSearchFields :
        IF f = "tags" THEN \E x \in Elems(r.tags) : P(x) ELSE P(r[f])

\* C8 (as claimed): for a non-empty query q, search(q) returns exactly the
\* records one of whose text-search fields contains q, case-insensitively.
C8_SearchExact ==
    LET o == op["A"]
        M(s) == ContainsNoCase(s, o.q)
    IN  (o.name = "search" /\ o.pc = "resolved" /\ o.q # <<>>) =>
          /\ Elems(o.val) = { r \in store : SomeField(r, M) }
          /\ Cardinality(Elems(o.val)) = Len(o.val)

\* What search computes instead: for a query q whose trimmed form t is not
\* empty, search(q) returns, once each, exactly the stored records one of
\* whose text-search fields (or one of its elements) contains t once both
\* are lower-cased by toLowerCase.  It differs from C8 where the query has
\* surrounding whitespace and where lower-casing depends on the position of
\* a character (a capital sigma ending a word).
C8_SearchTrimmedLowered ==
    LET o == op["A"]
        M(s) == ContainsLowered(s, Stripped(o.q))
    IN  (o.name = "search" /\ o.pc = "resolved" /\ Stripped(o.q) # <<>>) =>
          /\ Elems(o.val) = { r \in store : SomeField(r, M) }
          /\ Cardinality(Elems(o.val)) = Len(o.val)

\* The case of that lemma: search(" f") has returned the record matching in its title
\* ("Foo") and the record matching in its code ("foobar").
C8_Witness ==
    /\ op["A"].name = "search" /\ op["A"].pc = "resolved"
    /\ op["A"].q = <<SP, "f">>
    /\ op["A"].val = <<Rec(1, V1), Rec(2, V2)>>

\* C9: for an empty or whitespace-only query, search returns what listAll()
\* returns on the same collection, whatever text-search fields are configured.
C9_BlankQueryIsListAll ==
    LET o == op["A"]
    IN  (o.name = "search" /\ o.pc = "resolved"
           /\ \A i \in DOMAIN o.q : o.q[i] \in Whitespace)
              => o.val = ListAll(store)

\* C9 witness: with no text-search field configured, search(" \t") has
\* returned both records of the collection.
C9_Witness ==
    /\ op["A"].name = "search" /\ op["A"].pc = "resolved"
    /\ op["A"].q = <<SP, TAB>> /\ cfg.textSearchFields = {}
    /\ Len(op["A"].val) = 2

\* The order of C11 on a result val: for any two rows whose field holds a
\* value, the earlier is not below the later (desc or omitted), or not
\* above it (asc).
OrderedBy(val, orderBy, dir) ==
    \A i, j \in DOMAIN val :
        (i < j /\ val[i][orderBy] # Undefined /\ val[j][orderBy] # Undefined) =>
            IF dir = "asc" THEN val[i][orderBy] <= val[j][orderBy]
            ELSE val[i][orderBy] >= val[j][orderBy]

\* C11 (as claimed): listAll(orderBy, dir) returns every stored record
\* once, ordered by the field: non-increasing for desc or no dir,
\* non-decreasing for asc.
C11_ListAllOrdered ==
    LET o == op["A"]
    IN  (o.name = "listAll" /\ o.pc = "resolved" /\ o.orderBy # "none") =>
          /\ Elems(o.val) = store
          /\ Len(o.val) = Cardinality(store)
          /\ OrderedBy(o.val, o.orderBy, o.dir)

\* What listAll does guarantee: the result is always a permutation of the
\* collection, and it is ordered when every record holds a value in the
\* field.
ListAllOrderedWhenDefined ==
    LET o == op["A"]
    IN  (o.name = "listAll" /\ o.pc = "resolved" /\ o.orderBy # "none") =>
          /\ Elems(o.val) = store
          /\ Len(o.val) = Cardinality(store)
          /\ (\A r \in store : r[o.orderBy] # Undefined)
                => OrderedBy(o.val, o.orderBy, o.dir)

\* The example of C11: ids 1 (updatedAt 100) and 2 (updatedAt 200) listed
\* by updatedAt, desc, come back in the order 2, 1.
ListAllExample ==
    /\ op["A"].name = "listAll" /\ op["A"].pc = "resolved"
    /\ op["A"].orderBy = "updatedAt" /\ op["A"].dir = "desc"
    /\ Len(op["A"].val) = 2
    /\ op["A"].val[1].id = 2 /\ op["A"].val[1].updatedAt = 200
    /\ op["A"].val[2].id = 1 /\ op["A"].val[2].updatedAt = 100
\* importJson of the exported text has resolved on a collection that was
\* empty when its transaction began.
Reimported(o) ==
    /\ o.name = "importJson" /\ o.pc = "resolved" /\ o.pre = {}
    /\ last.exported # <<>> /\ o.rows = last.exported[1].items

\* C12 (as claimed): the items of exportJson() are exactly the records of
\* the collection, under the envelope with v = 1; and importing the text
\* into an empty collection yields exactly the exported set of records.
C12_ExportImportRoundTrip ==
    LET o == op["A"]
    IN  /\ (o.name = "exportJson" /\ o.pc = "resolved") =>
              /\ o.val[1].v = 1
              /\ o.val[1].exportedAt \in Clock
              /\ Elems(o.val[1].items) = store
              /\ Len(o.val[1].items) = Cardinality(store)
        /\ Reimported(o) => store = last.snapshot

\* What the round trip does guarantee: the same, for collections whose
\* field values JSON can carry.
RoundTripWhenRepresentable ==
    LET o == op["A"]
    IN  /\ (o.name = "exportJson" /\ o.pc = "resolved"
               /\ \A r \in store : JsonRecord(r) = r) =>
              /\ o.val[1].v = 1
              /\ Elems(o.val[1].items) = store
              /\ Len(o.val[1].items) = Cardinality(store)
        /\ (Reimported(o) /\ \A r \in last.snapshot : JsonRecord(r) = r)
              => store = last.snapshot
        /\ Reimported(o) => store = { JsonRecord(r) : r \in last.snapshot }

\* A collection of two records has been exported, emptied and restored.
RoundTripExample ==
    /\ Reimported(op["A"])
    /\ Cardinality(last.snapshot) = 2
    /\ store = last.snapshot
\* The last row of rows written under key k.
LastRowOf(rows, k) ==
    rows[CHOOSE i \in DOMAIN rows :
            rows[i].id = k /\ \A j \in DOMAIN rows : rows[j].id = k => j <= i]

\* C13: a successful importJson merges by key: records of keys that are
\* not among the items are unchanged, every key among the items holds the
\* last item given for it, and no key of the collection disappears.
C13_ImportMerges ==
    LET o == op["A"]
        ks == { o.rows[i].id : i \in DOMAIN o.rows }
    IN  (o.name = "importJson" /\ o.pc = "resolved") =>
          /\ \A r \in o.pre : r.id \notin ks => r \in o.post
          /\ \A k \in ks : \A x \in o.post : x.id = k <=> x = LastRowOf(o.rows, k)
          /\ \A k \in ks : \E x \in o.post : x.id = k
          /\ \A r \in o.pre : \E x \in o.post : x.id = r.id
          /\ \A x \in o.post : x.id \in ks \/ x \in o.pre
          /\ store = o.post

\* C13 witness: an import of two items for key 2 into a collection holding
\* keys 1 and 2 has kept record 1 and stored the second item.
C13_Witness ==
    /\ op["A"].name = "importJson" /\ op["A"].pc = "resolved"
    /\ op["A"].rows = <<Rec(2, V2), Rec(2, V1)>>
    /\ op["A"].pre = {Rec(1, V1), Rec(2, V2)}
    /\ store = {Rec(1, V1), Rec(2, V1)}
\* An importJson of context A for a text that is no envelope.
MalformedImport(o) == o.name = "importJson" /\ o.kind \in MalformedKinds

\* C14: importJson of a malformed payload fails in the call itself: the
\* collection and its indexes are unchanged, no transaction is begun, the
\* database is not opened and no message is sent.
C14_MalformedImportFailsFirst ==
    /\ [](MalformedImport(op["A"]) =>
            /\ op["A"].pc = "rejected" /\ op["A"].res # "ok"
            /\ op["A"].sent = 0 /\ ~op["A"].committed
            /\ tx.owner # "A")
    /\ [][(op["A"].pc = "idle" /\ MalformedImport(op'["A"])) =>
            /\ store' = store /\ index' = index /\ tx' = tx
            /\ inbox' = inbox /\ dbCache' = dbCache]_vars

\* C14 witness: an import of text that is not JSON has been rejected on a
\* collection that holds records, with nothing queued at the other context.
C14_Witness ==
    /\ op["A"].name = "importJson" /\ op["A"].kind = "notJson"
    /\ op["A"].pc = "rejected" /\ op["A"].res = "SyntaxError"
    /\ store # {} /\ last.name = "put" /\ inbox["B"] = <<>>

\* C15 (as claimed): a text that parses as JSON to a value whose items is
\* not an array makes importJson fail with 'Invalid import payload'.
C15_InvalidPayloadError ==
    LET o == op["A"]
    IN  (o.name = "importJson" /\ o.kind \in MalformedKinds \ {"notJson"}) =>
          (o.pc = "rejected" /\ o.res = "Invalid import payload")

\* What importJson does guarantee: that error for every such value but
\* null, for which reading parsed.items throws TypeError.
InvalidPayloadErrorButNull ==
    LET o == op["A"]
    IN  (o.name = "importJson" /\ o.kind \in MalformedKinds \ {"notJson"}) =>
          /\ o.pc = "rejected"
          /\ o.res = IF o.kind = "null" THEN "TypeError" ELSE "Invalid import payload"
\* A message event has just been dispatched at store object o.
Dispatched(o) == Len(inbox'[o]) < Len(inbox[o])

\* C16: a ping sent from one tab is queued at every store object of the
\* same collection in another tab where channels exist, and a message
\* queued at an object whose listener h is subscribed leads to h being
\* invoked, unless h is unsubscribed first.
C16_CrossTabNotification ==
    /\ [][(op["A"].pc = "ping" /\ op'["A"].pc # "ping" /\ env.supported["T1"]) =>
            \A o \in env.created :
                (TabOf(o) # "T1" /\ env.supported[TabOf(o)]) =>
                    Len(inbox'[o]) = Len(inbox[o]) + 1]_vars
    /\ \A h \in Handlers :
          (op["A"].name = "put" /\ op["A"].pc = "resolved" /\ inbox["B"] # <<>>
             /\ subscribed["B"][h] = "on")
            ~> (h \in heard["B"].handlers \/ subscribed["B"][h] # "on")

\* C16 witness: after a put resolved in the other tab, the listener of
\* store object B has been invoked by A's message.
C16_Witness ==
    /\ op["A"].name = "put" /\ op["A"].pc = "resolved"
    /\ heard["B"] = [from |-> "A", handlers |-> {1}]
    /\ subscribed["B"][1] = "on"

\* C17 (as claimed): a listener is invoked only by writes issued from
\* another execution context than the one its store object lives in.
C17_NoSelfNotification ==
    \A o \in Objs :
        heard[o].handlers # {} => TabOf(heard[o].from) # TabOf(o)

\* What the channel does guarantee: a listener is never invoked by a write
\* made through its own store object, whose channel object receives none of
\* the messages it posts.
NoNotificationFromOwnStore ==
    \A o \in Objs :
        /\ heard[o].from # o
        /\ \A k \in DOMAIN inbox[o] : inbox[o][k].from # o

\* C18: a message event invokes exactly the listeners subscribed at that
\* moment, so none that was unsubscribed, and calling the function onChange
\* returned for one listener leaves the other subscriptions as they are.
C18_UnsubscribeStops ==
    [][\A o \in Objs :
          /\ Dispatched(o) =>
                \A h \in Handlers :
                    /\ subscribed[o][h] # "on" => h \notin heard'[o].handlers
                    /\ subscribed[o][h] = "on" => h \in heard'[o].handlers
          /\ \A h \in Handlers :
                (subscribed[o][h] = "on" /\ subscribed'[o][h] # "on") =>
                    /\ subscribed'[o][h] = "removed"
                    /\ \A g \in Handlers \ {h} : subscribed'[o][g] = subscribed[o][g]]_vars

\* C18 witness: listener 1 of B was unsubscribed and the next message
\* invoked listener 2 alone.
C18_Witness ==
    /\ subscribed["B"][1] = "removed" /\ subscribed["B"][2] = "on"
    /\ heard["B"] = [from |-> "A", handlers |-> {2}]

\* C19: in a tab without BroadcastChannel no listener is ever registered
\* (onChange returns undefined), and a write made there commits and
\* resolves without error and without sending any message.
C19_NoTransport ==
    /\ \A o \in Objs : ~env.supported[TabOf(o)] =>
          /\ \A h \in Handlers : subscribed[o][h] \in {"off", "undefined"}
          /\ heard[o] = NotHeard
    /\ ~env.supported["T1"] =>
          /\ \A o \in Objs : inbox[o] = <<>>
          /\ op["A"].sent = 0
          /\ op["A"].pc \notin {"rejected", "thrown"}
          /\ op["A"].pc = "resolved" => (op["A"].committed /\ op["A"].res = "ok")

\* C19 witness: without BroadcastChannel in its tab, a put has committed
\* and resolved with nothing sent, and onChange has returned undefined.
C19_Witness ==
    /\ ~env.supported["T1"] /\ env.supported["T2"]
    /\ op["A"].name = "put" /\ op["A"].pc = "resolved" /\ op["A"].sent = 0
    /\ Rec(1, V1) \in store
    /\ subscribed["A2"][1] = "undefined" /\ subscribed["B"][1] = "on"
\* C20 (as claimed): a listener subscribed on a store is never invoked by
\* a write on a store whose (dbName, storeName) pair differs, whatever the
\* names are.
C20_NoCrossSignal ==
    \A o \in Objs :
        heard[o].handlers # {} => env.names[heard[o].from] = env.names[o]

\* s holds no colon.
Plain(s) == \A i \in DOMAIN s : s[i] # ":"

\* What the derivation does guarantee: the same, for names without a colon.
NoCrossSignalPlainNames ==
    LET plain == \A o \in env.created :
                    Plain(env.names[o].dbName) /\ Plain(env.names[o].storeName)
    IN  plain =>
          /\ \A a, b \in env.created :
                env.names[a] # env.names[b] => ChannelOf(a) # ChannelOf(b)
          /\ \A o \in Objs :
                heard[o].handlers # {} => env.names[heard[o].from] = env.names[o]

\* A listener of a store with the writer's own names is invoked.
SameNamesSignal ==
    /\ env.names["C"] = env.names["A"]
    /\ heard["C"] = [from |-> "A", handlers |-> {1}]

\* C21: in each tab openDB is called at most once for a cache key, and an
\* operation that awaits the handle awaits the promise the cache holds; no
\* tab has more than one open request pending for a key.
C21_OpenedOncePerContext ==
    /\ \A t \in Tabs : \A i, j \in DOMAIN db.opens[t] :
           i # j => db.opens[t][i] # db.opens[t][j]
    /\ \A c \in Ctx : op[c].pc = "db" =>
           KeyOf(c) \in DOMAIN dbCache[TabOf(c)]
    /\ \A c, d \in db.reqs :
           (TabOf(c) = TabOf(d) /\ KeyOf(c) = KeyOf(d)) => c = d

\* C21 witness: two operations of one tab and one key await the handle
\* while the one open request is still pending.
C21_Witness ==
    /\ op["A"].pc = "db" /\ op["B"].pc = "db"
    /\ TabOf("A") = TabOf("B") /\ KeyOf("A") = KeyOf("B")
    /\ dbCache["T1"][KeyOf("A")] = "pending"
    /\ db.opens["T1"] = <<KeyOf("A")>>
    /\ Cardinality(db.reqs) = 1


\* The upgrade of the database ran in this step.
Upgraded == db'.version > db.version

\* C22: an upgrade leaves every object store it found in place, with the
\* records it held and with every index it had, each by its old
\* definition; afterwards the configured store exists and has every
\* configured index, those that were missing by their configured definition.
C22_UpgradeAdditive ==
    [][Upgraded =>
         LET s == env.names["A"].storeName
         IN  /\ DOMAIN db.schema \subseteq DOMAIN db'.schema
             /\ \A x \in DOMAIN db.schema : \A n \in DOMAIN db.schema[x] :
                    /\ n \in DOMAIN db'.schema[x]
                    /\ db'.schema[x][n] = db.schema[x][n]
             /\ s \in DOMAIN db'.schema
             /\ \A n \in IndexNames :
                    /\ n \in DOMAIN db'.schema[s]
                    /\ (s \notin DOMAIN db.schema \/ n \notin DOMAIN db.schema[s])
                          => db'.schema[s][n] = IndexDef(n)
             /\ store' = store /\ index' = index]_vars

\* C22 witness: the upgrade found the store with records and a by_title
\* index that is not unique, though the configuration now says unique, and
\* without by_tags; now by_tags is there, by_title is as it was, and a
\* listByIndex over by_title has returned a record stored before.
C22_Witness ==
    LET s == SnippetsNames.storeName
    IN  /\ db.version = SnippetsVersion + 1
        /\ s \in DOMAIN db.prior
        /\ "by_title" \in DOMAIN db.prior[s] /\ "by_tags" \notin DOMAIN db.prior[s]
        /\ cfg.unique /\ ~db.schema[s]["by_title"].unique
        /\ db.schema[s]["by_tags"] = IndexDef("by_tags")
        /\ op["A"].name = "listByIndex" /\ op["A"].pc = "resolved"
        /\ op["A"].val = <<Rec(1, V1)>>


\* C23: an operation called while the engine's storage works is not
\* rejected with the storage error of an earlier open.
C23_UsableAfterFailure ==
    \A c \in Ctx :
        (op[c].pc = "rejected" /\ c \in db.sound) => op[c].res # "UnknownError"

\* What holds: the failures of an operation's own making (a key that is no
\* key, an index that does not exist, a text that is not JSON) are not
\* remembered; the handle stays cached and fulfilled.
OwnFailureKeepsHandle ==
    \A c \in Ctx :
        (op[c].pc = "rejected" /\ op[c].res \in {"DataError", "NotFoundError"})
            => Promise(c) = "fulfilled"

\* The failed open of the first access, for comparison: it is reported to
\* the operation that was called while the storage failed.
FirstOpenFailed ==
    /\ op["A"].pc = "rejected" /\ op["A"].res = "UnknownError"
    /\ "A" \notin db.sound


\* The engine has begun the work of caller c's operation: its transaction
\* has started or its read has been answered.
EngineStarted(c) ==
    \/ op[c].pc \in {"req", "commit", "thrown", "ping", "resolved"}
    \/ op[c].pc = "rejected" /\ op[c].res \in {"DataError", "ConstraintError"}
    \/ op[c].pc = "rejected" /\ op[c].name = "listByIndex"

\* The engine has finished the work of caller c's operation.
EngineDone(c) ==
    /\ op[c].pc \in {"idle", "ping", "resolved", "rejected"}
    /\ tx.owner # c

\* Caller d's operation in flight was called before caller c's.
CalledBefore(d, c) ==
    \E j, k \in DOMAIN db.called :
        j < k /\ db.called[j] = d /\ db.called[k] = c

\* C24: of two operations called one after the other on one store in one
\* tab, the engine begins the later one only when it has finished the
\* earlier one, so the later one observes the earlier one's effect: a get
\* called after a put of the key returns the record put, and a listAll
\* called after a delete of a key or after a clear does not list the key.
C24_ProgramOrder ==
    \A d, c \in Ctx :
        CalledBefore(d, c) =>
            /\ EngineStarted(c) => EngineDone(d)
            /\ (op[d].name = "put" /\ op[c].name = "get" /\ op[c].pc = "resolved"
                   /\ op[c].key = op[d].rows[1].id)
                  => op[c].val = op[d].rows
            /\ (op[d].name \in {"delete", "clear"} /\ op[c].pc = "resolved"
                   /\ op[c].name \in {"listAll", "search", "exportJson"})
                  => LET listed == Elems(IF op[c].name = "exportJson"
                                         THEN op[c].val[1].items ELSE op[c].val)
                     IN  IF op[d].name = "clear" THEN listed = {}
                         ELSE \A r \in listed : r.id # op[d].key

\* C24 witness: get(1) was called after put of a record with key 1 on a
\* collection that held another record of that key, and has returned the
\* record put while the put has yet to call ping.
C24_Witness ==
    /\ CalledBefore("A", "B")
    /\ op["A"].name = "put" /\ op["A"].rows = <<Rec(1, V2)>>
    /\ op["B"].name = "get" /\ op["B"].pc = "resolved"
    /\ op["B"].val = <<Rec(1, V2)>>
    /\ op["A"].pc = "ping"
    /\ Rec(2, V2) \in store


\* The promise of caller c's operation is resolved or rejected.
Done(c) == op[c].pc \in {"resolved", "rejected", "thrown"}

\* C25: every operation that is called eventually settles.
C25_EverySettles ==
    \A c \in Ctx : (op[c].pc # "idle") ~> Done(c)

\* What holds: an operation settles unless the open it awaits is blocked by
\* a connection of an older version.
SettlesUnlessBlocked ==
    \A c \in Ctx :
        (op[c].pc # "idle") ~> (Done(c) \/ \E d \in Ctx : Blocked(d))

\* The blocked open, for comparison: B's configuration asks for a newer
\* version while the connection A's operation opened is held.
BlockedOpen ==
    /\ Blocked("B") /\ op["B"].pc = "db"
    /\ Promise("B") = "pending"
    /\ \E k \in db.conns : k.version < env.version["B"]


\* for (const r of rows) await tx.store.put(r): when the loop is about to
\* put row i, it has awaited the settlement of each of the i - 1 puts
\* before, and the puts of the rows from i on are still to be issued.
PutsAwaited(o) == o.i - 1
PutsToIssue(o) == Len(o.rows) - (o.i - 1)

\* C26: upsertMany awaits no write of its own before every write of the
\* batch has been issued.
C26_IssueAllThenAwait ==
    \A c \in Ctx :
        op[c].name = "upsertMany" =>
            (PutsAwaited(op[c]) > 0 => PutsToIssue(op[c]) = 0)

\* What holds: the writes of a batch run in one transaction, and its
\* completion is awaited once, after the last write.
BatchInOneTransaction ==
    \A c \in Ctx :
        (op[c].name = "upsertMany" /\ op[c].pc = "req") =>
            (tx.owner = c /\ ~op[c].committed)


\* Caller c's operation has resumed with the handle of its database.
HasHandle(c) ==
    /\ op[c].pc \notin {"idle", "db"}
    /\ Cached(c)
    /\ Promise(c) = "fulfilled"

\* C27: when the two configurations share dbName and version, an operation
\* that has the handle finds its object store and every configured index on
\* it, and is not rejected for want of them.
C27_EveryStoreAvailable ==
    (KeyOf("A") = KeyOf("B")) =>
        \A c \in Ctx :
            HasHandle(c) =>
                /\ env.names[c].storeName \in DOMAIN db.schema
                /\ \A n \in IndexNames : n \in DOMAIN db.schema[env.names[c].storeName]
                /\ (op[c].pc = "rejected" /\ op[c].name # "listByIndex")
                      => op[c].res # "NotFoundError"

\* What holds: the store used first on a database that did not exist has
\* its object store and indexes.
FirstStoreAvailable ==
    \A c \in Ctx :
        (HasHandle(c) /\ db.opens[TabOf(c)] # <<>> /\ c \in db.sound
           /\ \E k \in db.conns : k.tab = TabOf(c) /\ k.key = KeyOf(c)
           /\ db.schema # <<>>
           /\ env.names[c].storeName \in DOMAIN db.schema)
          => \A n \in IndexNames : n \in DOMAIN db.schema[env.names[c].storeName]


\* Store object o is the one a list view in another tab than the writer A
\* subscribes to, in a tab that has channels.
ListViewElsewhere(o) ==
    /\ o \in env.created
    /\ env.lib[o] = "db"
    /\ env.listeners[o] # {}
    /\ TabOf(o) # TabOf("A")
    /\ Supported(o)

\* C28: every write of the application, through the generic store or
\* through the editor's hand-written store, pings the channel the list view
\* of every other tab subscribes to: the ping queues a message at the list
\* view's store object.
C28_EveryWriteReachesListView ==
    [][(op["A"].pc = "ping" /\ op'["A"].pc # "ping" /\ Supported("A")) =>
          \A o \in Objs :
              ListViewElsewhere(o) =>
                  /\ ChannelOf("A") = ChannelOf(o)
                  /\ Len(inbox'[o]) = Len(inbox[o]) + 1]_vars

\* What holds: the writes made through the generic store reach the list
\* view of the other tab.
GenericWritesReachListView ==
    [][(op["A"].pc = "ping" /\ op'["A"].pc # "ping" /\ Supported("A")
          /\ env.lib["A"] = "db") =>
          \A o \in Objs :
              ListViewElsewhere(o) => Len(inbox'[o]) = Len(inbox[o]) + 1]_vars

\* The editor's save has pinged and resolved, and the subscribed list view
\* of the other tab has received nothing.
EditorSaveUnheard ==
    /\ env.lib["A"] = "idb"
    /\ op["A"].name = "put" /\ op["A"].pc = "resolved" /\ op["A"].sent = 1
    /\ ListViewElsewhere("B")
    /\ subscribed["B"][1] = "on"
    /\ inbox["B"] = <<>> /\ heard["B"] = NotHeard
    /\ inbox["C"] # <<>>


\* The generic search and the hand-written searchByTitle have both
\* returned, for the same query on the same collection.
BothSearched ==
    /\ op["A"].name = "search" /\ op["A"].pc = "resolved"
    /\ op["B"].name = "searchByTitle" /\ op["B"].pc = "resolved"
    /\ op["A"].q = op["B"].q

\* C29: on a collection of well-formed snippets, searchByTitle(q) and the
\* generic search(q) over title, tags and code return the same set of
\* records, and for a query that is empty once its surrounding whitespace
\* is removed both return the whole collection.
C29_SearchesAgree ==
    BothSearched =>
        /\ Elems(op["A"].val) = Elems(op["B"].val)
        /\ Stripped(op["A"].q) = <<>> =>
              /\ Elems(op["A"].val) = store
              /\ Elems(op["B"].val) = store

\* C29 witness: for the query " f" both have returned the record matching
\* in its title and the record matching in its code, in different orders.
C29_Witness ==
    /\ BothSearched
    /\ op["A"].q = <<SP, "f">>
    /\ op["A"].val = <<Rec(1, V1), Rec(2, V2)>>
    /\ op["B"].val = <<Rec(2, V2), Rec(1, V1)>>


\* The step is one of caller c's read operation: its call, its wait for the
\* database, its engine call or its return.
ReadStep(c) ==
    /\ op'[c] # op[c]
    /\ op[c].name \in Reads \/ op'[c].name \in Reads

\* C30: no step of get, listAll, search, listByIndex or exportJson changes
\* the records of the collection, its index entries or an open
\* transaction, and none queues a change message, whether the operation
\* resolves or is rejected.
C30_ReadsChangeNothing ==
    [][\A c \in Ctx :
          ReadStep(c) =>
              /\ store' = store /\ index' = index /\ tx' = tx
              /\ inbox' = inbox
              /\ op'[c].sent = 0]_vars

\* C30 witness: on a collection that holds records, a listByIndex on an
\* index that does not exist has been rejected after the other tab's
\* write, having sent nothing; the only message is that write's.
C30_Witness ==
    /\ op["A"].name = "listByIndex" /\ op["A"].pc = "rejected"
    /\ op["A"].res = "NotFoundError" /\ op["A"].sent = 0
    /\ store # {}
    /\ Len(inbox["A"]) = 1 /\ inbox["A"][1].from = "B"
    /\ inbox["B"] = <<>>

=============================================================================
